---- MODULE Spec2Model ----
(***************************************************************************)
(* A model of the state-machine registry MachineAdapter                    *)
(* (src/src/pewpi-shared/machines/adapter.js).                             *)
(*                                                                         *)
(* Strings that the code concatenates or splits (state labels, event       *)
(* names, the transition key `${fromState}:${event}`) are sequences of     *)
(* tokens, the token ":" standing for a colon; <<>> is the empty string.   *)
(* JavaScript values that may be undefined, a string or a function are     *)
(* records tagged with their type.  Date.now() stamps (machine.created,    *)
(* record.timestamp) and the informational machine.states are left out:    *)
(* no operation reads them.                                                *)
(***************************************************************************)
EXTENDS Integers, Sequences, FiniteSets, TLC

VARIABLES
    machines,        \* this.machines: id -> [currentState, context, history]
    transitions,     \* this.transitions: id -> insertion-ordered Map key -> value
    stateCallbacks,  \* this.stateCallbacks: id -> array of callbacks
    result,          \* what the last call returned or threw
    calls,           \* the callbacks invoked by the last call, in order
    errors,          \* the callbacks whose exception the last call logged
    log,             \* id -> every record pushed since the history was last empty
    stale,           \* <<id, callback>>: registered before a re-registration, not since
    origin,          \* id -> [initialState: the state registerMachine gave the machine,
                     \*        reached: that state and the target of every send since]
    seen,            \* for each callback the last send called, in order: the
                     \* target state and the record of the transition, the
                     \* place of that record among the records this send
                     \* pushed (seq), and the machine as it was at the call
    clock,           \* the value Date.now() returns
    localStorage,    \* window.localStorage: key -> string
    tokenService,    \* a TokenService: [storage: whether this.storage is set, tokenCache]
    issued,          \* [expiry: token id -> expiry for every token generated,
                     \*  revoked: ids of generated tokens passed to revokeToken,
                     \*  refused: ids of generated tokens validateToken answered false for]
    authService,     \* an AuthService: [tokenService and storage: whether set,
                     \*                  currentUser, authCallbacks]
    authNotified,    \* the auth states the last call passed to callbacks, in order
    sessionToken,    \* the id of the token the last successful authenticate returned
    walletService,   \* a WalletUnified: [storage: whether set, wallets, activeWallet,
                     \*                    walletCallbacks]
    walletNotified,  \* the changes the last call passed to callbacks, in order
    walletsCreated,  \* the number of wallets createWallet has made
    listeners,       \* IntegrationListener.listeners: event type -> its array
    arrays,          \* the listener arrays in use: array -> its listeners, in order
    eventQueue,      \* IntegrationListener.eventQueue
    processing,      \* IntegrationListener.processing
    tasks,           \* the calls of _processEvent suspended at `await listener.handler(event)`
    queueWaits,      \* whether _processQueue is suspended at its await with the
                     \* _processEvent it called already returned
    registered,      \* listener id -> the listener, for every on() so far
    emitted,         \* event id -> the event, for every emit() so far, with async,
                     \* and audience: the listeners of its type at the emit
                     \* whose filter accepts it
    invoked,         \* [listener, event, data] for every handler call so far
    repeated,        \* <<listener id, event id>> of the handler calls made twice
    completed,       \* event id -> the listener ids registered for its type when
                     \* the loop of its _processEvent ended
    notifier,        \* a UINotification: [container: whether set, notifications,
                     \*                    maxNotifications]
    shown,           \* the number of notifications show() has made
    timers,          \* the notification ids with a pending auto-remove timeout
    dom,             \* the notification ids whose element is in the container
    fading,          \* the notification ids with a pending timeout that takes
                     \* the element out of the container
    classes,         \* the module names whose class is defined in the global scope
    PewpiShared,     \* the PewpiShared namespace: [initialized, modules, errors]
    threw,           \* the module names whose constructor threw in initialize
    uiModal,         \* a UIModal: [overlay, modal, isOpen, onCloseCallback]
    modalElements,   \* for every pair of overlay and modal element created: their
                     \* opacity and whether a click on the overlay closes
    modalBody,       \* the pairs whose elements are children of document.body
    modalTimers,     \* the pending timeouts of show and close, in the order set
    modalCreated,    \* the number of pairs show() has created
    modalClosed      \* whether close() was called since show() last returned

\* the MachineAdapter and what is recorded of its calls
adapterVars == <<machines, transitions, stateCallbacks, calls, errors, log, stale, origin,
                 seen>>
\* the clock, the storage and the TokenService
tokenVars == <<clock, localStorage, tokenService, issued>>
\* the AuthService and what is recorded of its calls
authVars == <<authService, authNotified, sessionToken>>
\* the WalletUnified and what is recorded of its calls
walletVars == <<walletService, walletNotified, walletsCreated>>
\* the IntegrationListener and what is recorded of its calls
listenerVars == <<listeners, arrays, eventQueue, processing, tasks, queueWaits,
                  registered, emitted, invoked, repeated, completed>>
\* the UINotification, its timeouts and its elements
notificationVars == <<notifier, shown, timers, dom, fading>>
\* the loader and the classes it finds
loaderVars == <<classes, PewpiShared, threw>>
\* the UIModal, its elements and its timeouts
modalVars == <<uiModal, modalElements, modalBody, modalTimers, modalCreated, modalClosed>>
\* the objects that use neither the clock, the storage nor the wallets
restVars == <<listenerVars, notificationVars, loaderVars, modalVars>>
\* the objects that use neither the clock nor the storage
apartVars == <<walletVars, restVars>>
\* the objects beside the MachineAdapter
sharedVars == <<tokenVars, authVars, apartVars>>
\* what a call to the TokenService leaves alone
notTokenVars == <<adapterVars, authVars, apartVars>>
\* what a call to the AuthService leaves alone
notAuthVars == <<adapterVars, apartVars>>
\* what a call to the WalletUnified leaves alone, the storage apart
notWalletVars == <<adapterVars, clock, tokenService, issued, authVars, restVars>>
\* what a call to the IntegrationListener leaves alone
notListenerVars == <<adapterVars, tokenVars, authVars, walletVars, notificationVars,
                     loaderVars, modalVars>>
\* what a call to the UINotification leaves alone
notNotificationVars == <<adapterVars, tokenVars, authVars, walletVars, listenerVars,
                         loaderVars, modalVars>>
\* what a call to the UIModal leaves alone
notModalVars == <<adapterVars, tokenVars, authVars, walletVars, listenerVars,
                  notificationVars, loaderVars>>

vars == <<adapterVars, result, sharedVars>>

-----------------------------------------------------------------------------
(* Bounds of the model *)

\* the most records all histories hold together under Spec
MaxHistory == 2
\* the most callbacks all lists hold together
MaxListeners == 2
\* the most records pushed to one history under SpecCap
MaxSends == 103
\* the most records the history holds under SpecHandler
MaxHandlerHistory == 2
\* the most records pushed to one history under SpecHistory
MaxLookupSends == 20
\* the most records pushed to one history under SpecLive before the last send
MaxLiveSends == 4
\* the most listeners registered and events emitted under SpecDrain
MaxDrainListeners == 2
MaxDrainEvents == 2
\* the most events emitted under SpecQueue
MaxQueued == 1002
\* the latest time of the clock
MaxTime == 3
\* the most tokens generated
MaxTokens == 2

(* Program constants *)

\* adapter.js:122 `if (machine.history.length > 100)` and :123 `slice(-100)`
HistoryLimit == 100
\* adapter.js:194 `getHistory(machineId, limit = 10)`
DefaultHistoryLimit == 10

-----------------------------------------------------------------------------
(* JavaScript values *)

Undefined == [type |-> "undefined"]
Null == [type |-> "null"]
Str(s) == [type |-> "string", s |-> s]
Fn(f) == [type |-> "function", fn |-> f]
Obj(o) == [type |-> "object", o |-> o]
Arr(a) == [type |-> "array", a |-> a]
Bool(b) == [type |-> "boolean", b |-> b]

\* ToBoolean: undefined, null, the empty string and 0 are falsy
Truthy(v) ==
    CASE v.type = "undefined" -> FALSE
      [] v.type = "null" -> FALSE
      [] v.type = "string" -> v.s # <<>>
      [] v.type = "number" -> v.n # 0
      [] v.type = "boolean" -> v.b
      [] OTHER -> TRUE

\* mutant: the keys of a win
SpreadKeepOld(a, b) ==
    [k \in (DOMAIN a) \cup (DOMAIN b) |-> IF k \in DOMAIN a THEN a[k] ELSE b[k]]

\* { ...a, ...b }: the keys of b win, the other keys of a are kept
Spread(a, b) ==
    [k \in (DOMAIN a) \cup (DOMAIN b) |-> IF k \in DOMAIN b THEN b[k] ELSE a[k]]

\* Array.prototype.slice(start): a negative start counts from the end
Slice(s, start) ==
    LET from == IF start < 0
                THEN (IF Len(s) + start > 0 THEN Len(s) + start ELSE 0)
                ELSE (IF start < Len(s) THEN start ELSE Len(s))
    IN  SubSeq(s, from + 1, Len(s))

Range(s) == {s[i] : i \in 1..Len(s)}

-----------------------------------------------------------------------------
(* Labels, events, payloads, contexts *)

Colon == <<":">>
IDLE == <<"idle">>
RUNNING == <<"running">>
EMPTY == <<>>
START == <<"START">>
STOP == <<"STOP">>
GO == <<"GO">>
\* the label 'door:open'
DOOR_OPEN == <<"door", ":", "open">>
\* a currentState that holds undefined instead of a string
NoState == <<"#undefined">>

\* mutant: the key is built from the state alone
TransitionKeyStateOnly(fromState, event) == fromState \o Colon

\* `${fromState}:${event}`
TransitionKey(fromState, event) == fromState \o Colon \o event

\* Map.prototype.get
MapGet(m, key) ==
    IF \E i \in 1..Len(m) : m[i].key = key
    THEN m[CHOOSE i \in 1..Len(m) : m[i].key = key].value
    ELSE Undefined

MapHas(m, key) == \E i \in 1..Len(m) : m[i].key = key

\* Map.prototype.set: an existing key keeps its place, a new key goes last
MapSet(m, key, value) ==
    IF MapHas(m, key)
    THEN [i \in 1..Len(m) |-> IF m[i].key = key THEN [key |-> key, value |-> value] ELSE m[i]]
    ELSE Append(m, [key |-> key, value |-> value])


-----------------------------------------------------------------------------
(* Inputs: callbacks, handlers, configurations *)

Ids == {"m1", "m2"}

\* callbacks handed to onStateChange; "L2" raises whenever it is called
Callbacks == {"L1", "L2", "L3"}
Throws(cb) == cb = "L2"

Num(n) == [type |-> "number", n |-> n]
\* the number Infinity
PosInfinity == [type |-> "infinity"]

\* Date.now() at the start: later than the longest negative lifetime is long
StartTime == 2

\* transition handlers: transition(machine.context, payload)
\*   "toRunning" returns {state: 'running'}
\*   "patch"     returns {context: {a: 1}}
\*   "echo"      returns its payload: (context, payload) => payload
\*   "fail"      raises: () => { throw new Error('handler') }
\*   "nothing"   returns nothing: () => {}
\*   "name"      returns the name of a state: () => 'running'
Handler(fn, context, payload) ==
    CASE fn = "toRunning" ->
           [kind |-> "return", value |-> Obj([state |-> Str(RUNNING), context |-> Undefined])]
      [] fn = "patch" ->
           [kind |-> "return", value |-> Obj([state |-> Undefined, context |-> Obj([a |-> 1])])]
      [] fn = "echo" -> [kind |-> "return", value |-> payload]
      [] fn = "fail" ->
           [kind |-> "throw",
            value |-> [type |-> "error", name |-> "Error", message |-> "handler"]]
      [] fn = "name" -> [kind |-> "return", value |-> Str(RUNNING)]
      [] OTHER -> [kind |-> "return", value |-> Undefined]

\* registerMachine(id) / registerMachine(id, {})
EmptyConfig ==
    [initialState |-> Undefined, context |-> Undefined, transitions |-> Undefined]

\* the configuration of test-modules.js
TestConfig ==
    [initialState |-> Str(IDLE), context |-> Undefined,
     transitions |-> Obj(<<
        [from |-> IDLE, entries |-> <<[event |-> START, to |-> Str(RUNNING)]>>],
        [from |-> RUNNING, entries |-> <<[event |-> STOP, to |-> Str(IDLE)]>>] >>)]

\* a configuration with an initial state, a context and a handler transition
CtxConfig ==
    [initialState |-> Str(RUNNING), context |-> Obj([a |-> 0]),
     transitions |-> Obj(<<
        [from |-> RUNNING, entries |-> <<[event |-> STOP, to |-> Fn("patch")]>>] >>)]

Configs == {EmptyConfig, TestConfig, CtxConfig}

\* a configuration whose transitions from 'idle' and 'running' are handlers
HandlerConfig ==
    [initialState |-> Str(IDLE), context |-> Obj([a |-> 0, c |-> 3]),
     transitions |-> Obj(<<
        [from |-> IDLE, entries |-> <<[event |-> GO, to |-> Fn("echo")],
                                      [event |-> START, to |-> Str(RUNNING)]>>],
        [from |-> RUNNING, entries |-> <<[event |-> GO, to |-> Fn("echo")]>>] >>)]

\* a configuration whose handlers raise, return nothing or return a string,
\* beside a handler that returns its payload
FailingConfig ==
    [initialState |-> Str(IDLE), context |-> Obj([a |-> 0]),
     transitions |-> Obj(<<
        [from |-> IDLE, entries |-> <<[event |-> GO, to |-> Fn("echo")],
                                      [event |-> START, to |-> Fn("fail")],
                                      [event |-> STOP, to |-> Fn("name")]>>],
        [from |-> RUNNING, entries |-> <<[event |-> GO, to |-> Fn("echo")],
                                         [event |-> START, to |-> Fn("nothing")],
                                         [event |-> STOP, to |-> Fn("fail")]>>] >>)]

\* registerMachine(id, {initialState: ''})
BlankConfig ==
    [initialState |-> Str(EMPTY), context |-> Undefined, transitions |-> Undefined]

\* registerMachine(id, {initialState: 'running'})
RunConfig ==
    [initialState |-> Str(RUNNING), context |-> Undefined, transitions |-> Undefined]

-----------------------------------------------------------------------------
(* Results of calls *)

\* a call that returns nothing is recorded without its identifier
Returned(op, id, value) ==
    IF value = Undefined
    THEN [op |-> op, id |-> "", kind |-> "return", value |-> Undefined]
    ELSE [op |-> op, id |-> id, kind |-> "return", value |-> value]
Threw(op, id, error) == [op |-> op, id |-> id, kind |-> "throw", value |-> error]

\* new Error(`Machine ${machineId} not registered`) / `... not found`, and the
\* TypeError of reading a property of undefined
NotRegistered == [type |-> "error", name |-> "Error", message |-> "not registered"]
NotFound == [type |-> "error", name |-> "Error", message |-> "not found"]
TypeError == [type |-> "error", name |-> "TypeError", message |-> "undefined"]

-----------------------------------------------------------------------------
(* The state after `new MachineAdapter()` *)

Init ==
    /\ machines = <<>>
    /\ transitions = <<>>
    /\ stateCallbacks = <<>>
    /\ result = Returned("constructor", "", Undefined)
    /\ calls = <<>>
    /\ errors = <<>>
    /\ log = <<>>
    /\ stale = {}
    /\ origin = <<>>
    /\ seen = <<>>
    /\ clock = StartTime
    /\ localStorage = <<>>
    /\ tokenService = [storage |-> FALSE, tokenCache |-> <<>>]
    /\ issued = [expiry |-> <<>>, revoked |-> {}, refused |-> {}]
    /\ authService = [tokenService |-> FALSE, storage |-> FALSE,
                      currentUser |-> Null, authCallbacks |-> <<>>]
    /\ authNotified = <<>>
    /\ sessionToken = Null
    /\ walletService = [storage |-> FALSE, wallets |-> <<>>, activeWallet |-> Null,
                        walletCallbacks |-> <<>>]
    /\ walletNotified = <<>>
    /\ walletsCreated = 0
    /\ listeners = <<>>
    /\ arrays = <<>>
    /\ eventQueue = <<>>
    /\ processing = FALSE
    /\ tasks = {}
    /\ queueWaits = FALSE
    /\ registered = <<>>
    /\ emitted = <<>>
    /\ invoked = {}
    /\ repeated = {}
    /\ completed = <<>>
    /\ notifier = [container |-> FALSE, notifications |-> <<>>, maxNotifications |-> 5]
    /\ shown = 0
    /\ timers = {}
    /\ dom = {}
    /\ fading = {}
    /\ classes = {}
    /\ PewpiShared = [initialized |-> FALSE, modules |-> <<>>, errors |-> <<>>]
    /\ threw = {}
    /\ uiModal = [overlay |-> Null, modal |-> Null, isOpen |-> FALSE,
                  onCloseCallback |-> Null]
    /\ modalElements = <<>>
    /\ modalBody = {}
    /\ modalTimers = <<>>
    /\ modalCreated = 0
    /\ modalClosed = FALSE

\* Map.prototype.set / delete on the three registries
Put(map, id, value) == [k \in (DOMAIN map) \cup {id} |-> IF k = id THEN value ELSE map[k]]
Delete(map, id) == [k \in (DOMAIN map) \ {id} |-> map[k]]

-----------------------------------------------------------------------------
(* registerTransition *)

\* the table after registerTransition(id, fromState, event, toStateOrHandler)
SetTransition(table, fromState, event, toStateOrHandler) ==
    MapSet(table, TransitionKey(fromState, event), toStateOrHandler)

\* mutant: a missing table is created instead of raising
RegisterTransitionCreating(id, fromState, event, toStateOrHandler) ==
    /\ result' = Returned("registerTransition", id, Undefined)
    /\ transitions' = Put(transitions, id,
           SetTransition(IF id \in DOMAIN transitions THEN transitions[id] ELSE <<>>,
                         fromState, event, toStateOrHandler))
    /\ calls' = <<>>
    /\ seen' = <<>>
    /\ errors' = <<>>
    /\ UNCHANGED <<machines, stateCallbacks, log, stale, origin, sharedVars>>

RegisterTransition(id, fromState, event, toStateOrHandler) ==
    /\ IF id \notin DOMAIN transitions
       THEN /\ result' = Threw("registerTransition", id, NotRegistered)
            /\ transitions' = transitions
       ELSE /\ result' = Returned("registerTransition", id, Undefined)
            /\ transitions' = Put(transitions, id,
                   SetTransition(transitions[id], fromState, event, toStateOrHandler))
    /\ calls' = <<>>
    /\ seen' = <<>>
    /\ errors' = <<>>
    /\ UNCHANGED <<machines, stateCallbacks, log, stale, origin, sharedVars>>

-----------------------------------------------------------------------------
(* registerMachine *)

RECURSIVE FlattenEntries(_, _, _)
\* the inner forEach: registerTransition(machineId, from, event, to) per entry
FlattenEntries(table, from, entries) ==
    IF entries = <<>> THEN table
    ELSE FlattenEntries(SetTransition(table, from, Head(entries).event, Head(entries).to),
                        from, Tail(entries))

RECURSIVE Flatten(_, _)
\* the outer forEach over Object.entries(config.transitions)
Flatten(table, nested) ==
    IF nested = <<>> THEN table
    ELSE Flatten(FlattenEntries(table, Head(nested).from, Head(nested).entries), Tail(nested))

\* the machine object of registerMachine
NewMachine(config) ==
    [currentState |-> IF Truthy(config.initialState) THEN config.initialState.s ELSE IDLE,
     context |-> IF Truthy(config.context) THEN config.context.o ELSE <<>>,
     history |-> <<>>]

\* the transition table registerMachine leaves
NewTransitions(config) ==
    IF Truthy(config.transitions) THEN Flatten(<<>>, config.transitions.o) ELSE <<>>

\* mutant: the callbacks of the machine that is replaced are kept
KeepCallbacks(old) == old

\* the callback list registerMachine leaves
NewCallbacks(old) == <<>>

RegisterMachine(id, config) ==
    /\ machines' = Put(machines, id, NewMachine(config))
    /\ transitions' = Put(transitions, id, NewTransitions(config))
    /\ stateCallbacks' = Put(stateCallbacks, id,
           NewCallbacks(IF id \in DOMAIN stateCallbacks THEN stateCallbacks[id] ELSE <<>>))
    /\ result' = Returned("registerMachine", id, Obj(NewMachine(config)))
    /\ calls' = <<>>
    /\ seen' = <<>>
    /\ errors' = <<>>
    /\ log' = Put(log, id, <<>>)
    /\ stale' = IF id \in DOMAIN stateCallbacks
                THEN stale \cup {<<id, cb>> : cb \in Range(stateCallbacks[id])}
                ELSE stale
    /\ origin' = Put(origin, id,
           [initialState |-> NewMachine(config).currentState,
            reached |-> {NewMachine(config).currentState}])
    /\ UNCHANGED sharedVars

-----------------------------------------------------------------------------
(* _notifyStateChange *)

RECURSIVE ForEachNoCatch(_, _, _)
\* mutant: no try/catch, the first exception ends the loop and leaves send
ForEachNoCatch(callbacks, i, acc) ==
    IF i > Len(callbacks) THEN acc
    ELSE IF Throws(callbacks[i])
    THEN [calls |-> Append(acc.calls, callbacks[i]), errors |-> acc.errors, threw |-> TRUE]
    ELSE ForEachNoCatch(callbacks, i + 1,
            [calls |-> Append(acc.calls, callbacks[i]), errors |-> acc.errors,
             threw |-> FALSE])

RECURSIVE ForEach(_, _, _)
\* callbacks.forEach from index i on: every callback is called inside try/catch,
\* a raised exception is logged and the loop goes on
ForEach(callbacks, i, acc) ==
    IF i > Len(callbacks) THEN acc
    ELSE ForEach(callbacks, i + 1,
            [calls |-> Append(acc.calls, callbacks[i]),
             errors |-> IF Throws(callbacks[i]) THEN Append(acc.errors, callbacks[i])
                        ELSE acc.errors,
             threw |-> FALSE])

RECURSIVE Reverse(_)
Reverse(seq) == IF seq = <<>> THEN <<>> ELSE Append(Reverse(Tail(seq)), Head(seq))

\* mutant: the callbacks are called last-registered first
NotifyStateChangeReversed(id) ==
    IF id \in DOMAIN stateCallbacks
    THEN ForEach(Reverse(stateCallbacks[id]), 1,
                 [calls |-> <<>>, errors |-> <<>>, threw |-> FALSE])
    ELSE [calls |-> <<>>, errors |-> <<>>, threw |-> FALSE]

\* what _notifyStateChange(machineId, changeData) does: the callbacks it calls, the
\* exceptions it logs, and whether it raises
NotifyStateChange(id) ==
    IF id \in DOMAIN stateCallbacks
    THEN ForEach(stateCallbacks[id], 1, [calls |-> <<>>, errors |-> <<>>, threw |-> FALSE])
    ELSE [calls |-> <<>>, errors |-> <<>>, threw |-> FALSE]

-----------------------------------------------------------------------------
(* send *)

\* mutant: the record names the state after the transition twice
RecordTargetOnly(fromState, toState, event, payload) ==
    [fromState |-> toState, toState |-> toState, event |-> event, payload |-> payload]

\* the machine a callback of send finds, of the machine before lines
\* 111-124, when the callbacks are called first
AtCall(before, after) == before

\* the machine a callback of send finds, of the machine before lines
\* 111-124 and the machine after them: _notifyStateChange is called at
\* line 127
AtNotification(before, after) == after

\* the record send pushes (without its timestamp)
Record(fromState, toState, event, payload) ==
    [fromState |-> fromState, toState |-> toState, event |-> event, payload |-> payload]

\* mutant: slice(0, 100) keeps the oldest records
PushHistoryKeepOldest(history, record) ==
    LET pushed == Append(history, record)
    IN  IF Len(pushed) > HistoryLimit THEN SubSeq(pushed, 1, HistoryLimit) ELSE pushed

\* lines 121-124: the history after the push and the size limit
PushHistory(history, record) ==
    LET pushed == Append(history, record)
    IN  IF Len(pushed) > HistoryLimit THEN Slice(pushed, 0 - HistoryLimit) ELSE pushed

\* undefined and null: reading a property of them raises a TypeError
Nullish(value) == value.type \in {"undefined", "null"}

\* `value.name` of a value that is not undefined or null: the property of an
\* object, undefined for a string or a number
Field(value, name) == IF value.type = "object" THEN value.o[name] ELSE Undefined

\* lines 83: `if (!transition)`
NoTransition(transition) == ~Truthy(transition)

\* mutant: `toState = result.state`, without the fall-back to the current state
ResolveNoFallback(machine, transition, payload) ==
    IF transition.type = "function"
    THEN LET r == Handler(transition.fn, machine.context, payload)
         IN  IF r.kind = "throw" THEN [ok |-> FALSE, error |-> r.value]
             ELSE IF Nullish(r.value) THEN [ok |-> FALSE, error |-> TypeError]
             ELSE [ok |-> TRUE,
                   toState |-> IF Field(r.value, "state").type = "string"
                               THEN Field(r.value, "state").s
                               ELSE NoState,
                   context |-> IF Truthy(Field(r.value, "context"))
                               THEN Spread(machine.context, Field(r.value, "context").o)
                               ELSE machine.context]
    ELSE [ok |-> TRUE, toState |-> transition.s, context |-> machine.context]

\* mutant: a handler that raises or returns no object is passed over and the
\* machine stays in its state
ResolveSwallowing(machine, transition, payload) ==
    IF transition.type = "function"
    THEN LET r == Handler(transition.fn, machine.context, payload)
         IN  IF r.kind = "throw" \/ Nullish(r.value)
             THEN [ok |-> TRUE, toState |-> machine.currentState,
                   context |-> machine.context]
             ELSE [ok |-> TRUE,
                   toState |-> IF Truthy(Field(r.value, "state"))
                               THEN Field(r.value, "state").s
                               ELSE machine.currentState,
                   context |-> IF Truthy(Field(r.value, "context"))
                               THEN Spread(machine.context, Field(r.value, "context").o)
                               ELSE machine.context]
    ELSE [ok |-> TRUE, toState |-> transition.s, context |-> machine.context]

\* lines 93-109: the target state and context, [ok |-> FALSE] when the handler or
\* the reading of its result raises
Resolve(machine, transition, payload) ==
    IF transition.type = "function"
    THEN LET r == Handler(transition.fn, machine.context, payload)
         IN  IF r.kind = "throw" THEN [ok |-> FALSE, error |-> r.value]
             ELSE IF Nullish(r.value) THEN [ok |-> FALSE, error |-> TypeError]
             ELSE [ok |-> TRUE,
                   toState |-> IF Truthy(Field(r.value, "state"))
                               THEN Field(r.value, "state").s
                               ELSE machine.currentState,
                   context |-> IF Truthy(Field(r.value, "context"))
                               THEN Spread(machine.context, Field(r.value, "context").o)
                               ELSE machine.context]
    ELSE [ok |-> TRUE, toState |-> transition.s, context |-> machine.context]

\* the value send returns when no transition matches
NoTransitionResult(machine, event) ==
    [success |-> FALSE, fromState |-> machine.currentState,
     toState |-> machine.currentState, event |-> event]

\* the value send returns after a transition
SuccessResult(fromState, toState, event, context) ==
    [success |-> TRUE, fromState |-> fromState, toState |-> toState,
     event |-> event, context |-> context]

\* mutant: an unknown machine is answered with null
UnknownMachineSoft(id) == Returned("send", id, Null)

\* lines 75-77: `throw new Error(`Machine ${machineId} not found`)`
UnknownMachine(id) == Threw("send", id, NotFound)

Send(id, event, payload) ==
    IF id \notin DOMAIN machines
    THEN /\ result' = UnknownMachine(id)
         /\ calls' = <<>>
         /\ seen' = <<>>
         /\ errors' = <<>>
         /\ UNCHANGED <<machines, transitions, stateCallbacks, log, stale, origin, sharedVars>>
    ELSE IF id \notin DOMAIN transitions
    THEN /\ result' = Threw("send", id, TypeError)
         /\ calls' = <<>>
         /\ seen' = <<>>
         /\ errors' = <<>>
         /\ UNCHANGED <<machines, transitions, stateCallbacks, log, stale, origin, sharedVars>>
    ELSE
      LET machine == machines[id]
          transition == MapGet(transitions[id], TransitionKey(machine.currentState, event))
      IN  IF NoTransition(transition)
          THEN /\ result' = Returned("send", id, NoTransitionResult(machine, event))
               /\ calls' = <<>>
               /\ seen' = <<>>
               /\ errors' = <<>>
               /\ UNCHANGED <<machines, transitions, stateCallbacks, log, stale, origin, sharedVars>>
          ELSE
            LET r == Resolve(machine, transition, payload)
            IN  IF ~r.ok
                THEN /\ result' = Threw("send", id, r.error)
                     /\ calls' = <<>>
                     /\ seen' = <<>>
                     /\ errors' = <<>>
                     /\ UNCHANGED <<machines, transitions, stateCallbacks, log, stale, origin, sharedVars>>
                ELSE
                  LET record == Record(machine.currentState, r.toState, event, payload)
                      n == NotifyStateChange(id)
                  IN  /\ machines' = Put(machines, id,
                              [currentState |-> r.toState,
                               context |-> r.context,
                               history |-> PushHistory(machine.history, record)])
                      /\ log' = Put(log, id, Append(log[id], record))
                      /\ calls' = n.calls
                      /\ seen' = [i \in 1..Len(n.calls) |->
                                     [callback |-> n.calls[i], toState |-> r.toState,
                                      record |-> record, seq |-> 1,
                                      machine |-> AtNotification(machine, machines'[id])]]
                      /\ errors' = n.errors
                      /\ result' = IF n.threw
                                   THEN Threw("send", id, [type |-> "error", name |-> "Error",
                                                           message |-> "callback"])
                                   ELSE Returned("send", id,
                                            SuccessResult(machine.currentState, r.toState,
                                                          event, r.context))
                      /\ origin' = Put(origin, id,
                              [origin[id] EXCEPT !.reached = @ \cup {r.toState}])
                      /\ UNCHANGED sharedVars
                      /\ UNCHANGED <<transitions, stateCallbacks, stale>>

-----------------------------------------------------------------------------
(* lookups *)

getState(id) == IF id \in DOMAIN machines THEN Str(machines[id].currentState) ELSE Null

getContext(id) == IF id \in DOMAIN machines THEN Obj(machines[id].context) ELSE Null

isInState(id, state) == IF id \in DOMAIN machines THEN machines[id].currentState = state ELSE FALSE

getHistory(id, limit) ==
    IF id \notin DOMAIN machines THEN <<>> ELSE Slice(machines[id].history, 0 - limit)

getMachines == DOMAIN machines

\* a call getHistory(id) or getHistory(id, limit): `limit = 10` when not passed
GetHistory(id, limit) ==
    /\ result' = Returned("getHistory", id,
                     Arr(getHistory(id, IF limit.type = "undefined"
                                        THEN DefaultHistoryLimit ELSE limit.n)))
    /\ calls' = <<>>
    /\ seen' = <<>>
    /\ errors' = <<>>
    /\ UNCHANGED <<machines, transitions, stateCallbacks, log, stale, origin, sharedVars>>

-----------------------------------------------------------------------------
(* updateContext, onStateChange, offStateChange, reset, unregisterMachine *)

\* mutant: the context is replaced by the updates
UpdateContextReplacing(id, updates) ==
    /\ machines' = IF id \in DOMAIN machines
                   THEN Put(machines, id, [machines[id] EXCEPT !.context = updates])
                   ELSE machines
    /\ result' = Returned("updateContext", id, Undefined)
    /\ calls' = <<>>
    /\ seen' = <<>>
    /\ errors' = <<>>
    /\ UNCHANGED <<transitions, stateCallbacks, log, stale, origin, sharedVars>>

UpdateContext(id, updates) ==
    /\ machines' = IF id \in DOMAIN machines
                   THEN Put(machines, id,
                            [machines[id] EXCEPT !.context = Spread(machines[id].context, updates)])
                   ELSE machines
    /\ result' = Returned("updateContext", id, Undefined)
    /\ calls' = <<>>
    /\ seen' = <<>>
    /\ errors' = <<>>
    /\ UNCHANGED <<transitions, stateCallbacks, log, stale, origin, sharedVars>>

\* `callbacks && typeof callback === 'function'`
OnStateChange(id, callback) ==
    /\ IF id \in DOMAIN stateCallbacks /\ callback.type = "function"
       THEN /\ stateCallbacks' = Put(stateCallbacks, id, Append(stateCallbacks[id], callback.fn))
            /\ stale' = stale \ {<<id, callback.fn>>}
       ELSE UNCHANGED <<stateCallbacks, stale>>
    /\ result' = Returned("onStateChange", id, Undefined)
    /\ calls' = <<>>
    /\ seen' = <<>>
    /\ errors' = <<>>
    /\ UNCHANGED <<machines, transitions, log, origin, sharedVars>>

\* callbacks.indexOf(callback): the first index holding it, 0 when absent
IndexOf(callbacks, callback) ==
    IF \E i \in 1..Len(callbacks) : callbacks[i] = callback
    THEN CHOOSE i \in 1..Len(callbacks) :
            callbacks[i] = callback /\ \A j \in 1..(i - 1) : callbacks[j] # callback
    ELSE 0

\* callbacks.splice(index, 1)
Splice(callbacks, index) ==
    SubSeq(callbacks, 1, index - 1) \o SubSeq(callbacks, index + 1, Len(callbacks))

OffStateChange(id, callback) ==
    /\ stateCallbacks' =
         IF id \in DOMAIN stateCallbacks /\ IndexOf(stateCallbacks[id], callback) > 0
         THEN Put(stateCallbacks, id,
                  Splice(stateCallbacks[id], IndexOf(stateCallbacks[id], callback)))
         ELSE stateCallbacks
    /\ result' = Returned("offStateChange", id, Undefined)
    /\ calls' = <<>>
    /\ seen' = <<>>
    /\ errors' = <<>>
    /\ UNCHANGED <<machines, transitions, log, stale, origin, sharedVars>>

RECURSIVE SplitFirst(_)
\* key.split(':')[0]: the key up to its first colon
SplitFirst(key) ==
    IF key = <<>> \/ <<Head(key)>> = Colon THEN <<>>
    ELSE <<Head(key)>> \o SplitFirst(Tail(key))

\* lines 239-247: the state reset goes to
ResetState(id) ==
    IF id \in DOMAIN transitions /\ transitions[id] # <<>>
    THEN SplitFirst(transitions[id][1].key)
    ELSE IDLE

\* mutant: the history is emptied whatever clearHistory says
ResetClearingHistory(id, clearHistory) ==
    /\ IF id \in DOMAIN machines
       THEN /\ machines' = Put(machines, id,
                   [currentState |-> ResetState(id), context |-> <<>>, history |-> <<>>])
            /\ log' = Put(log, id, <<>>)
       ELSE UNCHANGED <<machines, log>>
    /\ result' = Returned("reset", id, Undefined)
    /\ calls' = <<>>
    /\ seen' = <<>>
    /\ errors' = <<>>
    /\ UNCHANGED <<transitions, stateCallbacks, stale, origin, sharedVars>>

Reset(id, clearHistory) ==
    /\ IF id \in DOMAIN machines
       THEN /\ machines' = Put(machines, id,
                   [currentState |-> ResetState(id),
                    context |-> <<>>,
                    history |-> IF clearHistory THEN <<>> ELSE machines[id].history])
            /\ log' = IF clearHistory THEN Put(log, id, <<>>) ELSE log
       ELSE UNCHANGED <<machines, log>>
    /\ result' = Returned("reset", id, Undefined)
    /\ calls' = <<>>
    /\ seen' = <<>>
    /\ errors' = <<>>
    /\ UNCHANGED <<transitions, stateCallbacks, stale, origin, sharedVars>>

\* mutant: the callback list is not deleted
UnregisterCallbacksForgotten(id) == stateCallbacks

\* the three deletes of unregisterMachine
UnregisterMachines(id) == Delete(machines, id)
UnregisterTransitions(id) == Delete(transitions, id)
UnregisterCallbacks(id) == Delete(stateCallbacks, id)

UnregisterMachine(id) ==
    /\ machines' = UnregisterMachines(id)
    /\ transitions' = UnregisterTransitions(id)
    /\ stateCallbacks' = UnregisterCallbacks(id)
    /\ log' = Delete(log, id)
    /\ result' = Returned("unregisterMachine", id, Undefined)
    /\ calls' = <<>>
    /\ seen' = <<>>
    /\ errors' = <<>>
    /\ origin' = Delete(origin, id)
    /\ UNCHANGED <<stale, sharedVars>>

-----------------------------------------------------------------------------
(* Spec: any sequence of calls.  "m1" is driven with every input; "m2" is a  *)
(* second machine beside it, driven with the test configuration, one        *)
(* callback and sends.  Either identifier is unknown while unregistered.    *)

FromStates == {IDLE}
Events == {START, STOP}
Targets == {Str(RUNNING), Str(EMPTY)}
Payloads == {Null}
Updates == {[b |-> 1]}
RegisterEvents == {START}

ConfigsOf(id) == IF id = "m1" THEN Configs ELSE {TestConfig}
CallbackArgsOf(id) == IF id = "m1" THEN {Fn("L1"), Fn("L2"), Null} ELSE {Fn("L3")}

RECURSIVE TotalLen(_, _)
\* the summed length of the sequences f[x], x in S
TotalLen(f, S) ==
    IF S = {} THEN 0
    ELSE LET x == CHOOSE x \in S : TRUE IN Len(f[x]) + TotalLen(f, S \ {x})

\* the bounds: records in all histories, callbacks in all lists
HistoryRoom ==
    TotalLen([i \in DOMAIN machines |-> machines[i].history], DOMAIN machines) < MaxHistory
ListenerRoom == TotalLen(stateCallbacks, DOMAIN stateCallbacks) < MaxListeners

DoRegisterMachine == \E id \in Ids : \E config \in ConfigsOf(id) : RegisterMachine(id, config)

DoRegisterTransition ==
    \E id \in {"m1"}, fromState \in FromStates, event \in RegisterEvents, to \in Targets :
        RegisterTransition(id, fromState, event, to)

DoSend ==
    \E id \in Ids, event \in Events, payload \in Payloads :
        HistoryRoom /\ Send(id, event, payload)

DoUpdateContext == \E id \in {"m1"}, updates \in Updates : UpdateContext(id, updates)

DoOnStateChange ==
    \E id \in Ids : \E callback \in CallbackArgsOf(id) :
        ListenerRoom /\ OnStateChange(id, callback)

DoOffStateChange == \E id \in {"m1"}, callback \in {"L1", "L2"} : OffStateChange(id, callback)

DoReset == \E id \in {"m1"}, clearHistory \in BOOLEAN : Reset(id, clearHistory)

DoUnregisterMachine == \E id \in Ids : UnregisterMachine(id)

Next ==
    \/ DoRegisterMachine
    \/ DoRegisterTransition
    \/ DoSend
    \/ DoUpdateContext
    \/ DoOnStateChange
    \/ DoOffStateChange
    \/ DoReset
    \/ DoUnregisterMachine

Spec == Init /\ [][Next]_vars

-----------------------------------------------------------------------------
(* SpecCap: one machine with the test configuration, sent more events than *)
(* the history keeps.  The payload of a send is its sequence number, so    *)
(* every record is different from every other.                             *)

CapRegisterMachine == RegisterMachine("m1", TestConfig)

CapSend ==
    /\ "m1" \in DOMAIN machines
    /\ Len(log["m1"]) < MaxSends
    /\ \E event \in Events : Send("m1", event, Num(Len(log["m1"]) + 1))

CapUpdateContext == \E updates \in Updates : UpdateContext("m1", updates)

CapReset == Reset("m1", TRUE)

CapUnregisterMachine == UnregisterMachine("m1")

NextCap ==
    \/ CapRegisterMachine
    \/ CapSend
    \/ CapUpdateContext
    \/ CapReset
    \/ CapUnregisterMachine

SpecCap == Init /\ [][NextCap]_vars

-----------------------------------------------------------------------------
(* SpecHandler: one machine whose transitions are handlers.  The handler   *)
(* returns the payload of the send, so the payloads below are the results  *)
(* a handler can give: a state, a context patch, both, neither, the empty  *)
(* string as state, and null (reading its `state` raises).                 *)

HandlerPayloads ==
    { Null,
      Obj([state |-> Str(RUNNING), context |-> Obj([a |-> 1])]),
      Obj([state |-> Str(IDLE), context |-> Undefined]),
      Obj([state |-> Str(EMPTY), context |-> Obj([b |-> 2])]),
      Obj([state |-> Undefined, context |-> Obj([b |-> 2])]),
      Obj([state |-> Undefined, context |-> Undefined]) }
HandlerEvents == {GO, START}

HRegisterMachine == RegisterMachine("m1", HandlerConfig)

HSend ==
    /\ "m1" \in DOMAIN machines => Len(machines["m1"].history) < MaxHandlerHistory
    /\ \E event \in HandlerEvents, payload \in HandlerPayloads : Send("m1", event, payload)

HUpdateContext == \E updates \in Updates : UpdateContext("m1", updates)

HReset == \E clearHistory \in BOOLEAN : Reset("m1", clearHistory)

HUnregisterMachine == UnregisterMachine("m1")

NextHandler ==
    \/ HRegisterMachine
    \/ HSend
    \/ HUpdateContext
    \/ HReset
    \/ HUnregisterMachine

SpecHandler == Init /\ [][NextHandler]_vars

-----------------------------------------------------------------------------
(* SpecFailing: one machine whose handlers raise, return nothing, return a *)
(* string, or return the payload of the send (an object or null), with     *)
(* callbacks registered.                                                   *)

FailingPayloads ==
    { Null,
      Obj([state |-> Str(RUNNING), context |-> Obj([a |-> 1])]),
      Obj([state |-> Str(IDLE), context |-> Undefined]) }
FailingEvents == {GO, START, STOP}

FRegisterMachine == RegisterMachine("m1", FailingConfig)

FSend ==
    /\ "m1" \in DOMAIN machines => Len(machines["m1"].history) < MaxHandlerHistory
    /\ \E event \in FailingEvents, payload \in FailingPayloads : Send("m1", event, payload)

FUpdateContext == \E updates \in Updates : UpdateContext("m1", updates)

FOnStateChange ==
    \E callback \in {Fn("L1"), Fn("L2")} : ListenerRoom /\ OnStateChange("m1", callback)

FUnregisterMachine == UnregisterMachine("m1")

NextFailing ==
    \/ FRegisterMachine
    \/ FSend
    \/ FUpdateContext
    \/ FOnStateChange
    \/ FUnregisterMachine

SpecFailing == Init /\ [][NextFailing]_vars

-----------------------------------------------------------------------------
(* SpecReset: one machine registered without transitions or with the test  *)
(* configuration, given transitions from 'idle', 'running' and 'door:open', *)
(* sent events and reset.                                                   *)

ResetConfigs == {EmptyConfig, RunConfig, BlankConfig, TestConfig}
ResetFromStates == {IDLE, RUNNING, DOOR_OPEN}
ResetTargets == {Str(RUNNING), Str(DOOR_OPEN)}

RRegisterMachine == \E config \in ResetConfigs : RegisterMachine("m1", config)

RRegisterTransition ==
    \E fromState \in ResetFromStates, to \in ResetTargets :
        RegisterTransition("m1", fromState, START, to)

RSend == \E event \in Events, payload \in Payloads : HistoryRoom /\ Send("m1", event, payload)

RReset == \E clearHistory \in BOOLEAN : Reset("m1", clearHistory)

RUnregisterMachine == UnregisterMachine("m1")

NextReset ==
    \/ RRegisterMachine
    \/ RRegisterTransition
    \/ RSend
    \/ RReset
    \/ RUnregisterMachine

SpecReset == Init /\ [][NextReset]_vars

-----------------------------------------------------------------------------
(* SpecHistory: one machine with the test configuration, sent numbered     *)
(* payloads, its history read with no limit argument and with limits       *)
(* below, at and above the default; "m2" is never registered.              *)

HistoryLimits == {Undefined, Num(0), Num(1), Num(2), Num(11)}

LRegisterMachine == RegisterMachine("m1", TestConfig)

LSend ==
    /\ "m1" \in DOMAIN machines
    /\ Len(log["m1"]) < MaxLookupSends
    /\ \E event \in Events : Send("m1", event, Num(Len(log["m1"]) + 1))

LGetHistory == \E id \in Ids, limit \in HistoryLimits : GetHistory(id, limit)

LReset == Reset("m1", TRUE)

NextHistory ==
    \/ LRegisterMachine
    \/ LSend
    \/ LGetHistory
    \/ LReset

SpecHistory == Init /\ [][NextHistory]_vars

-----------------------------------------------------------------------------
(* TokenService (src/src/pewpi-shared/token-service.js).  A token is kept  *)
(* as [id, expiry]: its type, value, created and payload are never read.   *)
(* Token ids are fresh: _generateId is taken never to repeat an id.        *)

TokenIds == <<"t1", "t2", "t3", "t4", "t5">>
\* the expiresIn arguments: already over, none, one tick, never
Lifetimes == {Num(0 - 1), Num(0), Num(1), PosInfinity}
Times == StartTime..MaxTime

\* `timestamp + expiresIn`
Plus(timestamp, expiresIn) ==
    IF expiresIn = PosInfinity THEN PosInfinity ELSE Num(timestamp + expiresIn.n)

\* `token.expiry && token.expiry < now`
Expired(expiry, now) ==
    /\ Truthy(expiry)
    /\ expiry.type = "number"
    /\ expiry.n < now

\* `token_${tokenId}`
TokenKey(id) == <<"token_", id>>

\* JSON.stringify(token): the members in order, Infinity written as null
JsonStringify(token) ==
    <<"{", "id", token.id, "expiry",
      IF token.expiry = PosInfinity THEN Null ELSE token.expiry, "}">>

\* JSON.parse of a stored token
JsonParse(text) == [id |-> text[3], expiry |-> text[5]]

\* the TokenService with its storage and the record of what it issued
TokenState == [service |-> tokenService, storage |-> localStorage, issued |-> issued]

\* getToken: the token or null, and the cache afterwards
GetToken(st, id) ==
    IF id \in DOMAIN st.service.tokenCache
    THEN [token |-> Obj(st.service.tokenCache[id]), st |-> st]
    ELSE IF st.service.storage /\ TokenKey(id) \in DOMAIN st.storage
    THEN LET token == JsonParse(st.storage[TokenKey(id)])
         IN  [token |-> Obj(token),
              st |-> [st EXCEPT !.service.tokenCache = Put(@, id, token)]]
    ELSE [token |-> Null, st |-> st]

\* revokeToken
RevokeToken(st, id) ==
    [service |-> [st.service EXCEPT !.tokenCache = Delete(@, id)],
     storage |-> IF st.service.storage THEN Delete(st.storage, TokenKey(id)) ELSE st.storage,
     issued |-> [st.issued EXCEPT !.revoked =
                    IF id \in DOMAIN st.issued.expiry THEN @ \cup {id} ELSE @]]

\* generateToken at time `now`: the state afterwards and the token returned
GenerateToken(st, now, expiresIn) ==
    LET id == TokenIds[Cardinality(DOMAIN st.issued.expiry) + 1]
        token == [id |-> id, expiry |-> Plus(now, expiresIn)]
    IN  [token |-> token,
         st |-> [service |-> [st.service EXCEPT !.tokenCache = Put(@, id, token)],
                 storage |-> IF st.service.storage
                             THEN Put(st.storage, TokenKey(id), JsonStringify(token))
                             ELSE st.storage,
                 issued |-> [st.issued EXCEPT !.expiry = Put(@, id, token.expiry)]]]

\* mutant: an expired token is refused and kept
ValidateTokenKeeping(st, now, id) ==
    LET g == GetToken(st, id)
    IN  IF ~Truthy(g.token) THEN [ok |-> FALSE, st |-> g.st]
        ELSE IF Expired(g.token.o.expiry, now)
        THEN [ok |-> FALSE, st |-> g.st]
        ELSE [ok |-> TRUE, st |-> g.st]

\* validateToken at time `now`: the answer and the state afterwards
ValidateToken(st, now, id) ==
    LET g == GetToken(st, id)
    IN  IF ~Truthy(g.token) THEN [ok |-> FALSE, st |-> g.st]
        ELSE IF Expired(g.token.o.expiry, now)
        THEN [ok |-> FALSE, st |-> RevokeToken(g.st, id)]
        ELSE [ok |-> TRUE, st |-> g.st]

RECURSIVE RevokeAll(_, _)
\* toRemove.forEach(id => this.revokeToken(id))
RevokeAll(st, ids) ==
    IF ids = {} THEN st
    ELSE LET id == CHOOSE id \in ids : TRUE IN RevokeAll(RevokeToken(st, id), ids \ {id})

\* cleanupExpired at time `now`
CleanupExpired(st, now) ==
    RevokeAll(st, {id \in DOMAIN st.service.tokenCache :
                      Expired(st.service.tokenCache[id].expiry, now)})

\* the state st written back
SetTokenState(st) ==
    /\ tokenService' = st.service
    /\ localStorage' = st.storage
    /\ issued' = st.issued

\* `new TokenService(storage)`: before any token is generated with or without
\* a storage; later only a service with a storage is made again (a reload),
\* with an empty cache over the same storage
NewTokenService(withStorage) ==
    /\ IF issued.expiry = <<>> THEN TRUE ELSE tokenService.storage /\ withStorage
    /\ tokenService' = [storage |-> withStorage, tokenCache |-> <<>>]
    /\ result' = Returned("TokenService.constructor", "", Undefined)
    /\ UNCHANGED <<clock, localStorage, issued, notTokenVars>>

DoGenerateToken ==
    \E expiresIn \in Lifetimes :
        /\ Cardinality(DOMAIN issued.expiry) < MaxTokens
        /\ LET g == GenerateToken(TokenState, clock, expiresIn)
           IN  /\ SetTokenState(g.st)
               /\ result' = Returned("generateToken", g.token.id, Obj(g.token))
        /\ UNCHANGED <<clock, notTokenVars>>

\* a call validateToken(id)
ValidateTokenCall(id) ==
    LET v == ValidateToken(TokenState, clock, id)
    IN  /\ SetTokenState([v.st EXCEPT !.issued.refused =
                             IF ~v.ok /\ id \in DOMAIN issued.expiry
                             THEN @ \cup {id} ELSE @])
        /\ result' = [op |-> "validateToken", id |-> id, kind |-> "return",
                      value |-> Bool(v.ok)]
        /\ UNCHANGED <<clock, notTokenVars>>

DoValidateToken == \E n \in 1..MaxTokens : ValidateTokenCall(TokenIds[n])

DoGetToken ==
    \E n \in 1..MaxTokens :
        LET g == GetToken(TokenState, TokenIds[n])
        IN  /\ SetTokenState(g.st)
            /\ result' = Returned("getToken", TokenIds[n], g.token)
            /\ UNCHANGED <<clock, notTokenVars>>

DoRevokeToken ==
    \E n \in 1..MaxTokens :
        /\ SetTokenState(RevokeToken(TokenState, TokenIds[n]))
        /\ result' = Returned("revokeToken", TokenIds[n], Undefined)
        /\ UNCHANGED <<clock, notTokenVars>>

DoCleanupExpired ==
    /\ SetTokenState(CleanupExpired(TokenState, clock))
    /\ result' = Returned("cleanupExpired", "", Undefined)
    /\ UNCHANGED <<clock, notTokenVars>>

\* the clock is read by Date.now(); the system may set it forward or back
SetClock ==
    \E t \in Times :
        /\ t # clock
        /\ clock' = t
        /\ UNCHANGED <<result, localStorage, tokenService, issued, notTokenVars>>

DoNewTokenService == \E withStorage \in BOOLEAN : NewTokenService(withStorage)

NextToken ==
    \/ DoNewTokenService
    \/ DoGenerateToken
    \/ DoValidateToken
    \/ DoGetToken
    \/ DoRevokeToken
    \/ DoCleanupExpired
    \/ SetClock

SpecToken == Init /\ [][NextToken]_vars

-----------------------------------------------------------------------------
(* AuthService (src/unnamed/part_002).  A user is kept as [username,       *)
(* authenticated]; its id and timestamp are never read.  authenticate has  *)
(* no await in its body, so a call runs to its end before anything else.   *)

\* part_002:62 `86400000 // 24h`
AuthLifetime == 86400000

UserKey == <<"pewpi_auth_user">>
SessionTokenKey == <<"pewpi_auth_token">>
\* the id _generateUserId gives the token made without a TokenService
UserTokenId == "user_1"

Usernames == {<<"alice">>}
\* authenticate(), authenticate({}), authenticate({username: ''}),
\* authenticate({username: 'alice'})
Credentials ==
    {Undefined, Obj([username |-> Undefined]), Obj([username |-> Str(EMPTY)])}
        \cup {Obj([username |-> Str(u)]) : u \in Usernames}
AuthCallbacks == {"A1", "A2"}

\* JSON.stringify(user) and JSON.parse of it
UserStringify(user) ==
    <<"{", "username", user.username, "authenticated", user.authenticated, "}">>
UserParse(text) == [username |-> text[3], authenticated |-> text[5]]

\* isAuthenticated()
isAuthenticated(auth) ==
    auth.currentUser # Null /\ auth.currentUser.o.authenticated = TRUE

\* getCurrentUser()
getCurrentUser(auth) == auth.currentUser

\* _notifyAuthChange: every callback in order is passed the auth state
NotifyAuthChange(auth, authenticated) ==
    [i \in 1..Len(auth.authCallbacks) |->
        [callback |-> auth.authCallbacks[i], authenticated |-> authenticated]]

\* logout: the AuthService, the TokenService with the storage, and the
\* notifications afterwards
Logout(auth, st) ==
    LET wasAuthenticated == isAuthenticated(auth)
        revoked == IF /\ Truthy(auth.currentUser)
                      /\ auth.storage
                      /\ SessionTokenKey \in DOMAIN st.storage
                      /\ auth.tokenService
                   THEN RevokeToken(st, st.storage[SessionTokenKey])
                   ELSE st
    IN  [auth |-> [auth EXCEPT !.currentUser = Null],
         st |-> IF auth.storage
                THEN [revoked EXCEPT !.storage = Delete(Delete(@, UserKey), SessionTokenKey)]
                ELSE revoked,
         notified |-> IF wasAuthenticated THEN NotifyAuthChange(auth, FALSE) ELSE <<>>]

\* _persistSession
PersistSession(auth, storage, user, tokenId) ==
    IF auth.storage
    THEN Put(Put(storage, UserKey, UserStringify(user)), SessionTokenKey, tokenId)
    ELSE storage

\* `new AuthService(tokenService, storage)` with _init: a saved session is
\* restored, and dropped by logout when its token does not validate
ConstructAuthService(withTokenService, withStorage, st, now) ==
    LET fresh == [tokenService |-> withTokenService, storage |-> withStorage,
                  currentUser |-> Null, authCallbacks |-> <<>>]
    IN  IF withStorage /\ UserKey \in DOMAIN st.storage
                       /\ SessionTokenKey \in DOMAIN st.storage
        THEN LET restored == [fresh EXCEPT !.currentUser =
                                 Obj(UserParse(st.storage[UserKey]))]
                 v == ValidateToken(st, now, st.storage[SessionTokenKey])
             IN  IF withTokenService /\ ~v.ok
                 THEN Logout(restored, v.st)
                 ELSE [auth |-> restored,
                       st |-> IF withTokenService THEN v.st ELSE st,
                       notified |-> <<>>]
        ELSE [auth |-> fresh, st |-> st, notified |-> <<>>]

NewAuthService(withTokenService, withStorage) ==
    LET made == ConstructAuthService(withTokenService, withStorage, TokenState, clock)
    IN  /\ authService' = made.auth
        /\ SetTokenState(made.st)
        /\ authNotified' = made.notified
        /\ sessionToken' = Null
        /\ result' = Returned("AuthService.constructor", "", Undefined)
        /\ UNCHANGED <<clock, notAuthVars>>

\* mutant: only an absent username is refused
UsernameMissingAbsentOnly(credentials) ==
    ~Truthy(credentials) \/ credentials.o.username = Undefined

\* `!credentials || !credentials.username`
UsernameMissing(credentials) ==
    ~Truthy(credentials) \/ ~Truthy(credentials.o.username)

\* a call authenticate(credentials)
Authenticate(credentials) ==
    IF UsernameMissing(credentials)
    THEN /\ result' = Returned("authenticate", "auth",
                         Obj([success |-> FALSE, error |-> "Username is required"]))
         /\ authNotified' = <<>>
         /\ UNCHANGED <<authService, sessionToken, tokenVars, notAuthVars>>
    ELSE LET user == [username |-> credentials.o.username.s, authenticated |-> TRUE]
             g == IF authService.tokenService
                  THEN GenerateToken(TokenState, clock, Num(AuthLifetime))
                  ELSE [token |-> [id |-> UserTokenId], st |-> TokenState]
             auth == [authService EXCEPT !.currentUser = Obj(user)]
         IN  /\ authService' = auth
             /\ SetTokenState([g.st EXCEPT !.storage =
                                  PersistSession(auth, @, user, g.token.id)])
             /\ authNotified' = NotifyAuthChange(auth, TRUE)
             /\ sessionToken' = Str(g.token.id)
             /\ result' = Returned("authenticate", "auth",
                             Obj([success |-> TRUE, user |-> user, token |-> g.token.id]))
             /\ UNCHANGED <<clock, notAuthVars>>

\* a call logout()
LogoutCall ==
    LET out == Logout(authService, TokenState)
    IN  /\ authService' = out.auth
        /\ SetTokenState(out.st)
        /\ authNotified' = out.notified
        /\ result' = Returned("logout", "", Undefined)
        /\ UNCHANGED <<clock, sessionToken, notAuthVars>>

\* onAuthChange(callback)
OnAuthChange(callback) ==
    /\ authService' = IF callback.type = "function"
                      THEN [authService EXCEPT !.authCallbacks = Append(@, callback.fn)]
                      ELSE authService
    /\ authNotified' = <<>>
    /\ result' = Returned("onAuthChange", "", Undefined)
    /\ UNCHANGED <<sessionToken, tokenVars, notAuthVars>>

\* offAuthChange(callback)
OffAuthChange(callback) ==
    /\ authService' =
         IF IndexOf(authService.authCallbacks, callback) > 0
         THEN [authService EXCEPT !.authCallbacks =
                  Splice(@, IndexOf(authService.authCallbacks, callback))]
         ELSE authService
    /\ authNotified' = <<>>
    /\ result' = Returned("offAuthChange", "", Undefined)
    /\ UNCHANGED <<sessionToken, tokenVars, notAuthVars>>

-----------------------------------------------------------------------------
(* SpecAuth: an AuthService made with or without a TokenService and a      *)
(* storage, made again over the same storage (a reload), with calls to the *)
(* TokenService it shares.                                                 *)

DoNewAuthService ==
    \E withTokenService \in BOOLEAN, withStorage \in BOOLEAN :
        NewAuthService(withTokenService, withStorage)

DoAuthenticate ==
    \E credentials \in Credentials :
        /\ Cardinality(DOMAIN issued.expiry) < MaxTokens
        /\ Authenticate(credentials)

DoOnAuthChange ==
    \E callback \in {Fn(cb) : cb \in AuthCallbacks} \cup {Null} :
        /\ Len(authService.authCallbacks) < MaxListeners
        /\ OnAuthChange(callback)

DoOffAuthChange == \E callback \in AuthCallbacks : OffAuthChange(callback)

NextAuth ==
    \/ DoNewAuthService
    \/ DoAuthenticate
    \/ LogoutCall
    \/ DoOnAuthChange
    \/ DoOffAuthChange
    \/ DoNewTokenService
    \/ DoValidateToken
    \/ DoRevokeToken

SpecAuth == Init /\ [][NextAuth]_vars

-----------------------------------------------------------------------------
(* WalletUnified (src/unnamed/part_000).  A wallet is kept as [id,         *)
(* balance]; its other fields are written by createWallet, addToken and    *)
(* recordTransaction and read by no method.  this.wallets is kept as the   *)
(* sequence of its values in insertion order.  this.activeWallet is a      *)
(* reference to an object of the map; it is kept as the id of that object, *)
(* which getActiveWallet looks up, so that a change of the object made     *)
(* through the map shows through the reference as it does in the code.     *)

MaxWallets == 2
WalletIds == <<"w1", "w2", "w3", "w4", "w5">>
\* an id no wallet has
UnknownWallet == "w0"
Amounts == {5}

WalletsKey == <<"pewpi_wallets">>
ActiveWalletKey == <<"pewpi_active_wallet">>
WalletCallbacks == {"W1", "W2"}

\* JSON.stringify(walletsArray) and JSON.parse of it
WalletsStringify(wallets) ==
    [i \in 1..Len(wallets) |-> <<"{", "id", wallets[i].id, "balance", wallets[i].balance, "}">>]
WalletsParse(text) == [i \in 1..Len(text) |-> [id |-> text[i][3], balance |-> text[i][5]]]

\* this.wallets.get(walletId): the place of the wallet, 0 for undefined
WalletIndex(wallets, walletId) ==
    IF \E i \in 1..Len(wallets) : wallets[i].id = walletId
    THEN CHOOSE i \in 1..Len(wallets) : wallets[i].id = walletId
    ELSE 0

\* getWallet(walletId)
getWallet(service, walletId) ==
    IF WalletIndex(service.wallets, walletId) > 0
    THEN Obj(service.wallets[WalletIndex(service.wallets, walletId)])
    ELSE Null

\* getActiveWallet()
getActiveWallet(service) ==
    IF service.activeWallet = Null THEN Null
    ELSE getWallet(service, service.activeWallet.s)

\* _notifyWalletChange({action, wallet}): what each callback is passed
NotifyWalletChange(service, action, walletId) ==
    [i \in 1..Len(service.walletCallbacks) |->
        [callback |-> service.walletCallbacks[i], action |-> action, wallet |-> walletId]]

\* _persistWallets()
PersistWallets(service, storage) ==
    IF service.storage
    THEN Put(storage, WalletsKey, WalletsStringify(service.wallets))
    ELSE storage

\* new WalletUnified(storage) with _init(): the saved wallets and the saved
\* active wallet are restored
ConstructWallet(withStorage, storage) ==
    LET restored == IF withStorage /\ WalletsKey \in DOMAIN storage
                    THEN WalletsParse(storage[WalletsKey])
                    ELSE <<>>
        active == IF /\ withStorage
                     /\ WalletsKey \in DOMAIN storage
                     /\ ActiveWalletKey \in DOMAIN storage
                     /\ WalletIndex(restored, storage[ActiveWalletKey]) > 0
                  THEN Str(storage[ActiveWalletKey])
                  ELSE Null
    IN  [storage |-> withStorage, wallets |-> restored,
         activeWallet |-> active, walletCallbacks |-> <<>>]

NewWalletUnified(withStorage) ==
    /\ walletService' = ConstructWallet(withStorage, localStorage)
    /\ walletNotified' = <<>>
    /\ result' = Returned("constructor", "", Undefined)
    /\ UNCHANGED <<walletsCreated, localStorage, notWalletVars>>

\* createWallet(config)
CreateWallet ==
    LET id == WalletIds[walletsCreated + 1]
        service == [walletService EXCEPT
                       !.wallets = Append(@, [id |-> id, balance |-> Num(0)])]
    IN  /\ walletService' = service
        /\ walletsCreated' = walletsCreated + 1
        /\ localStorage' = PersistWallets(service, localStorage)
        /\ walletNotified' = NotifyWalletChange(service, "created", id)
        /\ result' = Returned("createWallet", id, getWallet(service, id))
        /\ UNCHANGED notWalletVars

\* setActiveWallet: this.activeWallet = wallet, when only the first
\* activation is kept
ActivateFirstOnly(service, walletId) ==
    IF service.activeWallet = Null
    THEN [service EXCEPT !.activeWallet = Str(walletId)]
    ELSE service

\* setActiveWallet: this.activeWallet = wallet
Activate(service, walletId) == [service EXCEPT !.activeWallet = Str(walletId)]

\* setActiveWallet(walletId)
SetActiveWallet(walletId) ==
    IF getWallet(walletService, walletId) = Null
    THEN /\ result' = Returned("setActiveWallet", walletId, Bool(FALSE))
         /\ walletNotified' = <<>>
         /\ UNCHANGED <<walletService, walletsCreated, localStorage, notWalletVars>>
    ELSE /\ walletService' = Activate(walletService, walletId)
         /\ localStorage' = IF walletService.storage
                            THEN Put(localStorage, ActiveWalletKey, walletId)
                            ELSE localStorage
         /\ walletNotified' = NotifyWalletChange(walletService, "activated", walletId)
         /\ result' = Returned("setActiveWallet", walletId, Bool(TRUE))
         /\ UNCHANGED <<walletsCreated, notWalletVars>>

\* getActiveWallet()
GetActiveWallet ==
    /\ result' = [op |-> "getActiveWallet", id |-> "", kind |-> "return",
                  value |-> getActiveWallet(walletService)]
    /\ walletNotified' = <<>>
    /\ UNCHANGED <<walletService, walletsCreated, localStorage, notWalletVars>>

\* updateBalance(walletId, amount)
UpdateBalance(walletId, amount) ==
    LET index == WalletIndex(walletService.wallets, walletId)
        service == [walletService EXCEPT !.wallets[index].balance = Num(amount)]
    IN  IF index = 0
        THEN /\ result' = Returned("updateBalance", walletId, Undefined)
             /\ walletNotified' = <<>>
             /\ UNCHANGED <<walletService, walletsCreated, localStorage, notWalletVars>>
        ELSE /\ walletService' = service
             /\ localStorage' = PersistWallets(service, localStorage)
             /\ walletNotified' = NotifyWalletChange(service, "balance_updated", walletId)
             /\ result' = Returned("updateBalance", walletId, Undefined)
             /\ UNCHANGED <<walletsCreated, notWalletVars>>

\* deleteWallet(walletId)
DeleteWallet(walletId) ==
    LET index == WalletIndex(walletService.wallets, walletId)
        wasActive == /\ walletService.activeWallet # Null
                     /\ walletService.activeWallet.s = walletId
        service == [walletService EXCEPT
                       !.wallets = Splice(@, index),
                       !.activeWallet = IF wasActive THEN Null ELSE @]
        cleared == IF wasActive /\ walletService.storage
                   THEN Delete(localStorage, ActiveWalletKey)
                   ELSE localStorage
    IN  IF index = 0
        THEN /\ result' = Returned("deleteWallet", walletId, Bool(FALSE))
             /\ walletNotified' = <<>>
             /\ UNCHANGED <<walletService, walletsCreated, localStorage, notWalletVars>>
        ELSE /\ walletService' = service
             /\ localStorage' = PersistWallets(service, cleared)
             /\ walletNotified' = NotifyWalletChange(service, "deleted", walletId)
             /\ result' = Returned("deleteWallet", walletId, Bool(TRUE))
             /\ UNCHANGED <<walletsCreated, notWalletVars>>

\* onWalletChange(callback)
OnWalletChange(callback) ==
    /\ walletService' = IF callback.type = "function"
                        THEN [walletService EXCEPT !.walletCallbacks = Append(@, callback.fn)]
                        ELSE walletService
    /\ walletNotified' = <<>>
    /\ result' = Returned("onWalletChange", "", Undefined)
    /\ UNCHANGED <<walletsCreated, localStorage, notWalletVars>>

\* offWalletChange(callback)
OffWalletChange(callback) ==
    /\ walletService' =
         IF IndexOf(walletService.walletCallbacks, callback) > 0
         THEN [walletService EXCEPT !.walletCallbacks =
                  Splice(@, IndexOf(walletService.walletCallbacks, callback))]
         ELSE walletService
    /\ walletNotified' = <<>>
    /\ result' = Returned("offWalletChange", "", Undefined)
    /\ UNCHANGED <<walletsCreated, localStorage, notWalletVars>>

-----------------------------------------------------------------------------
(* SpecWallet: a WalletUnified made with or without a storage, and made    *)
(* again over the same storage (a reload).                                 *)

WalletIdInputs == {WalletIds[n] : n \in 1..MaxWallets} \cup {UnknownWallet}

DoNewWalletUnified == \E withStorage \in BOOLEAN : NewWalletUnified(withStorage)

DoCreateWallet ==
    /\ walletsCreated < MaxWallets
    /\ CreateWallet

DoSetActiveWallet == \E walletId \in WalletIdInputs : SetActiveWallet(walletId)

DoUpdateBalance ==
    \E walletId \in WalletIdInputs, amount \in Amounts : UpdateBalance(walletId, amount)

DoDeleteWallet == \E walletId \in WalletIdInputs : DeleteWallet(walletId)

DoOnWalletChange ==
    \E callback \in {Fn(cb) : cb \in WalletCallbacks} \cup {Null} :
        /\ Len(walletService.walletCallbacks) < MaxListeners
        /\ OnWalletChange(callback)

DoOffWalletChange == \E callback \in WalletCallbacks : OffWalletChange(callback)

NextWallet ==
    \/ DoNewWalletUnified
    \/ DoCreateWallet
    \/ DoSetActiveWallet
    \/ GetActiveWallet
    \/ DoUpdateBalance
    \/ DoDeleteWallet
    \/ DoOnWalletChange
    \/ DoOffWalletChange

SpecWallet == Init /\ [][NextWallet]_vars

-----------------------------------------------------------------------------
(* IntegrationListener (src/src/pewpi-shared/ui-modal.js:271-504).         *)
(* _processQueue and _processEvent are async functions: a call runs up to  *)
(* its first await, and what follows an await runs later, after the        *)
(* awaited promise has settled; the callers of emit, on, off and           *)
(* removeAllListeners run in between.  A handler returns a promise that    *)
(* settles at some later time; a handler that returns none is resumed in   *)
(* the next microtask, which is one of these times.                        *)
(* A listener array is an object of its own: _processEvent iterates over   *)
(* the array it read from the map while off and on change that array in    *)
(* place, and removeAllListeners and off take an array out of the map      *)
(* while an iteration may still hold it.  arrays is the heap of these      *)
(* arrays; listeners maps an event type to its array.                      *)

MaxRegistered == 2
MaxEvents == 2
ListenerIds == <<"L1", "L2", "L3", "L4", "L5">>
EventIds == <<"e1", "e2", "e3", "e4", "e5">>
TestEvent == "test.event"
WalletCreated == "wallet.created"
EventTypes == {TestEvent, WalletCreated}
EventData == {1, 2}
\* ui-modal.js:276
maxQueueSize == 1000

\* listener.filter && !listener.filter(event): whether the event is skipped;
\* the one filter there is accepts the events whose data is 1
Accepts(listener, event) ==
    ~(Truthy(listener.filter) /\ event.data # 1)

\* typeListeners.sort((a, b) => b.priority - a.priority): a stable sort,
\* higher priority first
RECURSIVE SortByPriority(_)
SortByPriority(items) ==
    IF items = <<>> THEN <<>>
    ELSE LET sorted == SortByPriority(SubSeq(items, 1, Len(items) - 1))
             last == items[Len(items)]
             k == Cardinality({i \in 1..Len(sorted) : sorted[i].priority >= last.priority})
         IN  SubSeq(sorted, 1, k) \o <<last>> \o SubSeq(sorted, k + 1, Len(sorted))

\* the listeners, arrays and suspended calls of the IntegrationListener,
\* with what is recorded of the handler calls
Bus ==
    [listeners |-> listeners, arrays |-> arrays, tasks |-> tasks,
     invoked |-> invoked, repeated |-> repeated, completed |-> completed]

\* a new array: the first name not in use
NewArray(bus) ==
    CHOOSE r \in 1..(Cardinality(DOMAIN bus.arrays) + 1) :
        /\ r \notin DOMAIN bus.arrays
        /\ \A q \in 1..(r - 1) : q \in DOMAIN bus.arrays

\* the arrays no map entry and no suspended call holds are dropped
Collect(bus) ==
    LET held == {bus.listeners[t] : t \in DOMAIN bus.listeners}
                    \cup {task.ref : task \in bus.tasks}
    IN  [bus EXCEPT !.arrays = [r \in (DOMAIN bus.arrays) \cap held |-> bus.arrays[r]]]

\* the ids of the listeners the map holds for an event type
RegisteredFor(bus, eventType) ==
    IF eventType \in DOMAIN bus.listeners
    THEN {bus.arrays[bus.listeners[eventType]][i].id :
            i \in 1..Len(bus.arrays[bus.listeners[eventType]])}
    ELSE {}

\* off(listenerId): the listener is spliced out of the array of the map that
\* holds it, and an array left empty is taken out of the map
Off(bus, listenerId) ==
    LET holders == {t \in DOMAIN bus.listeners : listenerId \in RegisteredFor(bus, t)}
    IN  IF holders = {} THEN [bus |-> bus, found |-> FALSE]
        ELSE LET t == CHOOSE h \in holders : TRUE
                 ref == bus.listeners[t]
                 index == CHOOSE i \in 1..Len(bus.arrays[ref]) :
                             bus.arrays[ref][i].id = listenerId
                 items == Splice(bus.arrays[ref], index)
             IN  [bus |-> [bus EXCEPT !.arrays[ref] = items,
                                      !.listeners = IF items = <<>> THEN Delete(@, t) ELSE @],
                  found |-> TRUE]

\* toRemove.forEach(id => this.off(id))
RECURSIVE OffAll(_, _)
OffAll(bus, toRemove) ==
    IF toRemove = <<>> THEN bus
    ELSE OffAll(Off(bus, Head(toRemove)).bus, Tail(toRemove))

\* listener.handler(event) is called
Invoke(bus, listener, event) ==
    [bus EXCEPT
        !.invoked = @ \cup {[listener |-> listener.id, event |-> event.id,
                             data |-> event.data]},
        !.repeated = IF \E call \in bus.invoked :
                           call.listener = listener.id /\ call.event = event.id
                     THEN @ \cup {<<listener.id, event.id>>}
                     ELSE @]

\* the for-of loop of _processEvent from the place its iterator is at: up
\* to the next handler call, where the function is suspended, or to the end
\* of the loop and the removal of the one-time listeners
Iterate(bus, event, ref, next, toRemove, queued) ==
    LET items == bus.arrays[ref]
        accepted == {i \in (next + 1)..Len(items) : Accepts(items[i], event)}
    IN  IF accepted # {}
        THEN LET i == CHOOSE a \in accepted : \A b \in accepted : a <= b
                 task == [event |-> event, ref |-> ref, next |-> i, current |-> items[i],
                          toRemove |-> toRemove, queued |-> queued]
                 called == Invoke(bus, items[i], event)
             IN  [bus |-> [called EXCEPT !.tasks = @ \cup {task}], finished |-> FALSE]
        ELSE [bus |-> OffAll([bus EXCEPT !.completed =
                                  Put(@, event.id, RegisteredFor(bus, event.type))],
                             toRemove),
              finished |-> TRUE]

\* _processEvent(event) up to its first await or its return
ProcessEvent(bus, event, queued) ==
    IF \/ event.type \notin DOMAIN bus.listeners
       \/ bus.arrays[bus.listeners[event.type]] = <<>>
    THEN [bus |-> [bus EXCEPT !.completed = Put(@, event.id, {})], finished |-> TRUE]
    ELSE Iterate(bus, event, bus.listeners[event.type], 0, <<>>, queued)

\* _processEvent after `await listener.handler(event)`
ResumeEvent(bus, task) ==
    Iterate([bus EXCEPT !.tasks = @ \ {task}], task.event, task.ref, task.next,
            IF task.current.once THEN Append(task.toRemove, task.current.id)
            ELSE task.toRemove,
            task.queued)

RECURSIVE ProcessQueueNotAwaiting(_, _)
\* mutant: the loop does not wait for _processEvent and goes on to the next
\* event at once
ProcessQueueNotAwaiting(bus, queue) ==
    IF queue = <<>>
    THEN [bus |-> bus, queue |-> queue, processing |-> FALSE, waits |-> FALSE]
    ELSE ProcessQueueNotAwaiting(ProcessEvent(bus, Head(queue), TRUE).bus, Tail(queue))

\* the while loop of _processQueue up to its await or its end
ProcessQueue(bus, queue) ==
    IF queue = <<>>
    THEN [bus |-> bus, queue |-> queue, processing |-> FALSE, waits |-> FALSE]
    ELSE LET p == ProcessEvent(bus, Head(queue), TRUE)
         IN  [bus |-> p.bus, queue |-> Tail(queue), processing |-> TRUE,
              waits |-> p.finished]

SetBus(bus) ==
    LET kept == Collect(bus)
    IN  /\ listeners' = kept.listeners
        /\ arrays' = kept.arrays
        /\ tasks' = kept.tasks
        /\ invoked' = kept.invoked
        /\ repeated' = kept.repeated
        /\ completed' = kept.completed

\* on(eventType, handler, options)
On(eventType, once, priority, filter) ==
    LET listenerId == ListenerIds[Cardinality(DOMAIN registered) + 1]
        listener == [id |-> listenerId, eventType |-> eventType, once |-> once,
                     priority |-> priority, filter |-> filter]
        ref == IF eventType \in DOMAIN listeners THEN listeners[eventType]
               ELSE NewArray(Bus)
        typeListeners == IF eventType \in DOMAIN listeners THEN arrays[ref] ELSE <<>>
    IN  /\ SetBus([Bus EXCEPT
                      !.listeners = Put(@, eventType, ref),
                      !.arrays = Put(@, ref, SortByPriority(Append(typeListeners, listener)))])
        /\ registered' = Put(registered, listenerId, listener)
        /\ result' = Returned("on", listenerId, Str(listenerId))
        /\ UNCHANGED <<eventQueue, processing, queueWaits, emitted, notListenerVars>>

\* off(listenerId)
OffCall(listenerId) ==
    /\ SetBus(Off(Bus, listenerId).bus)
    /\ result' = Returned("off", "", Bool(Off(Bus, listenerId).found))
    /\ UNCHANGED <<eventQueue, processing, queueWaits, registered, emitted,
                   notListenerVars>>

\* removeAllListeners(eventType)
RemoveAllListeners(eventType) ==
    /\ SetBus([Bus EXCEPT !.listeners = IF Truthy(eventType) THEN Delete(@, eventType.s[1])
                                        ELSE <<>>])
    /\ result' = Returned("removeAllListeners", "", Undefined)
    /\ UNCHANGED <<eventQueue, processing, queueWaits, registered, emitted,
                   notListenerVars>>

\* mutant: the queue is not limited
LimitQueueNot(pushed) == pushed

\* lines 431-434 of _queueEvent: after the push, a queue longer than
\* maxQueueSize loses its first event
LimitQueue(pushed) == IF Len(pushed) > maxQueueSize THEN Tail(pushed) ELSE pushed

\* emit(eventType, data, options), queued unless options.async is false, for
\* the event id _generateEventId() gives
EmitEvent(eventId, eventType, data, queued) ==
    LET event == [id |-> eventId, type |-> eventType, data |-> data]
        pushed == Append(eventQueue, event)
        queue == LimitQueue(pushed)
        run == ProcessQueue(Bus, queue)
        now == ProcessEvent(Bus, event, FALSE)
    IN  /\ emitted' = Put(emitted, eventId,
                          [type |-> eventType, data |-> data, queued |-> queued,
                           audience |-> {id \in RegisteredFor(Bus, eventType) :
                                            Accepts(registered[id], event)}])
        /\ IF queued
           THEN IF processing
                THEN /\ eventQueue' = queue
                     /\ UNCHANGED <<listeners, arrays, tasks, invoked, repeated, completed,
                                    processing, queueWaits>>
                ELSE /\ SetBus(run.bus)
                     /\ eventQueue' = run.queue
                     /\ processing' = run.processing
                     /\ queueWaits' = run.waits
           ELSE /\ SetBus(now.bus)
                /\ UNCHANGED <<eventQueue, processing, queueWaits>>
        /\ result' = Returned("emit", eventId, Undefined)
        /\ UNCHANGED <<registered, notListenerVars>>

\* emit with the next of the event ids
Emit(eventType, data, queued) ==
    EmitEvent(EventIds[Cardinality(DOMAIN emitted) + 1], eventType, data, queued)

\* a handler's promise has settled: the _processEvent that awaited it goes on
Resume(task) ==
    LET r == ResumeEvent(Bus, task)
    IN  /\ SetBus(r.bus)
        /\ queueWaits' = IF task.queued /\ r.finished THEN TRUE ELSE queueWaits
        /\ UNCHANGED <<result, eventQueue, processing, registered, emitted,
                       notListenerVars>>

\* the _processEvent that _processQueue awaited has returned: its loop goes on
ResumeQueue ==
    LET run == ProcessQueue(Bus, eventQueue)
    IN  /\ queueWaits
        /\ SetBus(run.bus)
        /\ eventQueue' = run.queue
        /\ processing' = run.processing
        /\ queueWaits' = run.waits
        /\ UNCHANGED <<result, registered, emitted, notListenerVars>>

-----------------------------------------------------------------------------
(* SpecListener: listeners registered and removed and events emitted,      *)
(* queued or not, while earlier events are being processed.                *)
(* SpecListenerFair: every suspended call goes on at last (the handlers    *)
(* complete).                                                              *)

\* on(type, handler), once(type, handler), on(type, handler, {priority: 10}),
\* on(type, handler, {filter}) for the first type, on(type, handler) for the other
OnInputs ==
    {<<TestEvent, FALSE, 0, Null>>, <<TestEvent, TRUE, 0, Null>>,
     <<TestEvent, FALSE, 10, Null>>, <<TestEvent, FALSE, 0, Fn("one")>>,
     <<WalletCreated, FALSE, 0, Null>>}

\* emit(type, data) for both types, emit(type, data, {async: false})
EmitInputs ==
    {<<TestEvent, data, TRUE>> : data \in EventData}
        \cup {<<TestEvent, 1, FALSE>>, <<WalletCreated, 1, TRUE>>}

DoOn ==
    \E input \in OnInputs :
        /\ Cardinality(DOMAIN registered) < MaxRegistered
        /\ On(input[1], input[2], input[3], input[4])

DoOff == \E listenerId \in DOMAIN registered : OffCall(listenerId)

DoRemoveAllListeners ==
    \E eventType \in {Str(<<TestEvent>>), Undefined} :
        RemoveAllListeners(eventType)

DoEmit ==
    \E input \in EmitInputs :
        /\ Cardinality(DOMAIN emitted) < MaxEvents
        /\ Emit(input[1], input[2], input[3])

DoResume == \E task \in tasks : Resume(task)

NextListener ==
    \/ DoOn
    \/ DoOff
    \/ DoRemoveAllListeners
    \/ DoEmit
    \/ DoResume
    \/ ResumeQueue

SpecListener == Init /\ [][NextListener]_vars

SpecListenerFair == SpecListener /\ WF_vars(DoResume) /\ WF_vars(ResumeQueue)

-----------------------------------------------------------------------------
(* UINotification (src/src/pewpi-shared/ui-notification.js).  A            *)
(* notification is kept as its id; its element is in the container while   *)
(* its id is in dom.                                                       *)

MaxShown == 3
NotificationIds == <<"n1", "n2", "n3", "n4", "n5">>
\* ui-notification.js:10
DefaultMaxNotifications == 5
\* options.maxNotifications: absent, 0, 2
MaxNotificationsOptions == {Undefined, Num(0), Num(2)}
\* options.duration of show: absent (the default duration, 3000) or 0
Durations == {Undefined, Num(0)}
\* ui-notification.js:11
DefaultDuration == 3000

\* the notifications, the elements and the timeouts remove() works on
Board == [notifications |-> notifier.notifications, dom |-> dom, fading |-> fading]

\* remove(id)
Remove(board, id) ==
    IF \E i \in 1..Len(board.notifications) : board.notifications[i] = id
    THEN [notifications |-> Splice(board.notifications, IndexOf(board.notifications, id)),
          dom |-> board.dom,
          fading |-> IF id \in board.dom THEN board.fading \cup {id} ELSE board.fading]
    ELSE board

\* this.notifications.forEach(n => this.remove(n.id)): forEach visits the
\* indices below the length the array had at the call, in order, and skips
\* an index the array no longer has
RECURSIVE ForEachRemove(_, _, _)
ForEachRemove(board, k, length) ==
    IF k > length THEN board
    ELSE IF k <= Len(board.notifications)
         THEN ForEachRemove(Remove(board, board.notifications[k]), k + 1, length)
         ELSE ForEachRemove(board, k + 1, length)

SetBoard(board) ==
    /\ notifier' = [notifier EXCEPT !.notifications = board.notifications]
    /\ dom' = board.dom
    /\ fading' = board.fading

\* new UINotification(options) with _init(): the container is made when
\* there is a document
ConstructNotification(maxNotifications, withDocument) ==
    [container |-> withDocument, notifications |-> <<>>,
     maxNotifications |-> IF Truthy(maxNotifications) THEN maxNotifications.n
                          ELSE DefaultMaxNotifications]

NewUINotification(maxNotifications, withDocument) ==
    /\ shown = 0
    /\ notifier' = ConstructNotification(maxNotifications, withDocument)
    /\ result' = Returned("UINotification.constructor", "", Undefined)
    /\ UNCHANGED <<shown, timers, dom, fading, notNotificationVars>>

\* show(message, options)
Show(duration) ==
    IF ~notifier.container
    THEN /\ result' = Returned("show", "", Undefined)
         /\ UNCHANGED <<notificationVars, notNotificationVars>>
    ELSE LET id == NotificationIds[shown + 1]
             time == IF duration # Undefined THEN duration.n ELSE DefaultDuration
             pushed == [notifications |-> Append(notifier.notifications, id),
                        dom |-> dom \cup {id}, fading |-> fading]
         IN  /\ shown' = shown + 1
             /\ timers' = IF time > 0 THEN timers \cup {id} ELSE timers
             /\ SetBoard(IF Len(pushed.notifications) > notifier.maxNotifications
                         THEN Remove(pushed, pushed.notifications[1])
                         ELSE pushed)
             /\ result' = Returned("show", "", Undefined)
             /\ UNCHANGED notNotificationVars

\* remove(id), called by a click on the element or by the user
RemoveCall(id) ==
    /\ SetBoard(Remove(Board, id))
    /\ result' = Returned("remove", "", Undefined)
    /\ UNCHANGED <<shown, timers, notNotificationVars>>

\* the auto-remove timeout of show() fires
Timeout(id) ==
    /\ id \in timers
    /\ timers' = timers \ {id}
    /\ SetBoard(Remove(Board, id))
    /\ UNCHANGED <<result, shown, notNotificationVars>>

\* the timeout of remove() fires: the element leaves the container
FadeOut(id) ==
    /\ id \in fading
    /\ fading' = fading \ {id}
    /\ dom' = dom \ {id}
    /\ UNCHANGED <<result, notifier, shown, timers, notNotificationVars>>

\* clear()
Clear ==
    /\ SetBoard(ForEachRemove(Board, 1, Len(notifier.notifications)))
    /\ result' = Returned("clear", "", Undefined)
    /\ UNCHANGED <<shown, timers, notNotificationVars>>

-----------------------------------------------------------------------------
(* SpecNotification: a UINotification made with or without a document,     *)
(* notifications shown, removed and cleared, and their timeouts.           *)

DoNewUINotification ==
    \E maxNotifications \in MaxNotificationsOptions, withDocument \in BOOLEAN :
        NewUINotification(maxNotifications, withDocument)

DoShow ==
    \E duration \in Durations :
        /\ shown < MaxShown
        /\ Show(duration)

DoRemove == \E n \in 1..MaxShown : RemoveCall(NotificationIds[n])

DoTimeout == \E id \in timers : Timeout(id)

DoFadeOut == \E id \in fading : FadeOut(id)

NextNotification ==
    \/ DoNewUINotification
    \/ DoShow
    \/ DoRemove
    \/ DoTimeout
    \/ DoFadeOut
    \/ Clear

SpecNotification == Init /\ [][NextNotification]_vars

-----------------------------------------------------------------------------
(* UIModal (src/src/pewpi-shared/ui-modal.js:6-263), in a page: document   *)
(* and document.body exist.  show() makes an overlay and a modal element,  *)
(* a pair; the pairs are numbered.  A timeout runs its function with the   *)
(* fields the object has when it fires.  The timeouts of close() (300 ms)  *)
(* fire in the order they were set, and so do those of show() (10 ms); a   *)
(* timeout of show() set before one of close(), or in the same call of     *)
(* show(), fires before it; one set in a later call may fire before or     *)
(* after it.  A timeout keeps the number of the show() that set it, 0 for  *)
(* a close() called from elsewhere.                                        *)

MaxModals == 3
MaxModalTimers == 3

\* the delays of the timeouts of show and close, in milliseconds
AnimationDelay == 10
CloseDelay == 300

ModalCallbacks == {"done"}

\* the element pair with the number n
Element(n) == [type |-> "element", n |-> n]

\* new UIModal() (lines 7-12)
ConstructModal ==
    [overlay |-> Null, modal |-> Null, isOpen |-> FALSE, onCloseCallback |-> Null]

\* the modal and its page
Page ==
    [modal |-> uiModal, elements |-> modalElements, body |-> modalBody,
     timers |-> modalTimers]

\* lines 50-56 of close: the current elements fade
Fade(page) ==
    IF Truthy(page.modal.overlay)
    THEN [page EXCEPT !.elements[page.modal.overlay.n].opacity = 0]
    ELSE page

\* close() (lines 47-74) up to its return: nothing when the modal is not
\* open, else the elements fade and the timeout is set
Close(page, call) ==
    IF ~page.modal.isOpen THEN page
    ELSE [Fade(page) EXCEPT
            !.timers = Append(@, [kind |-> "close", delay |-> CloseDelay, call |-> call])]

\* the function close() gave to setTimeout (lines 58-73): the current
\* elements leave the page, the fields are cleared, and the close
\* callback, if there is one, is called and forgotten
CloseTimeout(page) ==
    [page EXCEPT
        !.body = IF Truthy(page.modal.overlay) THEN @ \ {page.modal.overlay.n} ELSE @,
        !.modal = [overlay |-> Null, modal |-> Null, isOpen |-> FALSE,
                   onCloseCallback |-> Null]]

\* the function show() gave to setTimeout (lines 35-39): reading the style
\* of an overlay that is null raises, and nothing changes
AnimationTimeout(page) ==
    IF Truthy(page.modal.overlay)
    THEN [page EXCEPT !.elements[page.modal.overlay.n].opacity = 1]
    ELSE page

SetPage(page) ==
    /\ uiModal' = page.modal
    /\ modalElements' = page.elements
    /\ modalBody' = page.body
    /\ modalTimers' = page.timers

\* show(config) (lines 22-42)
ModalShow(closeOnOverlay) ==
    LET n == modalCreated + 1
        closed == Close(Page, n)
        created == [closed EXCEPT
            !.modal.overlay = Element(n),
            !.modal.modal = Element(n),
            !.modal.isOpen = TRUE,
            !.elements = Put(@, n, [opacity |-> 0, closeOnOverlay |-> closeOnOverlay]),
            !.body = @ \cup {n},
            !.timers = Append(@, [kind |-> "show", delay |-> AnimationDelay, call |-> n])]
    IN  /\ SetPage(created)
        /\ modalCreated' = n
        /\ modalClosed' = FALSE
        /\ result' = Returned("show", "", Undefined)
        /\ UNCHANGED notModalVars

\* close(), called by the program or by the click listener of a button
ModalClose ==
    /\ SetPage(Close(Page, 0))
    /\ modalClosed' = TRUE
    /\ result' = Returned("close", "", Undefined)
    /\ UNCHANGED <<modalCreated, notModalVars>>

\* a click on an overlay in the page: its listener, if it has one, calls close()
ModalClickOverlay(n) ==
    /\ n \in modalBody
    /\ modalElements[n].closeOnOverlay
    /\ SetPage(Close(Page, 0))
    /\ modalClosed' = TRUE
    /\ UNCHANGED <<result, modalCreated, notModalVars>>

\* onClose(callback) (lines 80-82)
ModalOnClose(callback) ==
    /\ uiModal' = [uiModal EXCEPT !.onCloseCallback = callback]
    /\ result' = Returned("onClose", "", Undefined)
    /\ UNCHANGED <<modalElements, modalBody, modalTimers, modalCreated, modalClosed,
                   notModalVars>>

\* whether the timeout at index i can be the next to fire
Due(i) ==
    /\ \A j \in 1..(i - 1) : modalTimers[j].kind # modalTimers[i].kind
    /\ modalTimers[i].delay = CloseDelay
          => \A j \in 1..Len(modalTimers) :
                (j < i \/ modalTimers[j].call = modalTimers[i].call)
                    => modalTimers[j].delay > AnimationDelay

\* the timeout at index i fires
ModalTimeout(i) ==
    LET left == [Page EXCEPT !.timers = Splice(@, i)]
    IN  /\ Due(i)
        /\ SetPage(IF modalTimers[i].kind = "close" THEN CloseTimeout(left)
                   ELSE AnimationTimeout(left))
        /\ UNCHANGED <<result, modalCreated, modalClosed, notModalVars>>

-----------------------------------------------------------------------------
(* SpecModal: modals shown, closed by call and by click, and the timeouts  *)
(* firing in between.                                                      *)

DoModalShow ==
    \E closeOnOverlay \in BOOLEAN :
        /\ modalCreated < MaxModals
        /\ Len(modalTimers) < MaxModalTimers
        /\ ModalShow(closeOnOverlay)

DoModalClose == Len(modalTimers) < MaxModalTimers /\ ModalClose

DoModalClickOverlay ==
    \E n \in modalBody : Len(modalTimers) < MaxModalTimers /\ ModalClickOverlay(n)

DoModalOnClose == \E callback \in ModalCallbacks : ModalOnClose(Fn(callback))

DoModalTimeout == \E i \in 1..Len(modalTimers) : ModalTimeout(i)

NextModal ==
    \/ DoModalShow
    \/ DoModalClose
    \/ DoModalClickOverlay
    \/ DoModalOnClose
    \/ DoModalTimeout

SpecModal == Init /\ [][NextModal]_vars

-----------------------------------------------------------------------------
(* PewpiShared (src/unnamed/part_001).  A loader throws when the class of  *)
(* its module is not defined, or when the constructor of the class throws; *)
(* which constructors throw is an input of initialize.  The instance       *)
(* a loader returns is kept in modules as a mark of its class, and its     *)
(* state in the variables of its class.                                    *)

ModuleNames ==
    <<"TokenService", "AuthService", "WalletUnified", "IntegrationListener",
      "MachineAdapter", "UINotification", "UIModal">>

\* the error message of a loader: `${name} not found`, or the message of
\* what the constructor threw
ClassNotFound(name) == <<name, " not found">>
ConstructorError(name) == <<name, " failed">>

\* loadModule(name, loader) when the error is not recorded
LoadModuleSilent(shared, name, loaded, message) ==
    IF loaded
    THEN [shared EXCEPT !.modules = Put(@, name, Obj([class |-> name]))]
    ELSE shared

\* loadModule(name, loader): `loaded` is whether the loader returns, and
\* `message` the message of what it throws
LoadModule(shared, name, loaded, message) ==
    IF loaded
    THEN [shared EXCEPT !.modules = Put(@, name, Obj([class |-> name]))]
    ELSE [shared EXCEPT !.errors = Append(@, [module |-> name, error |-> message])]

\* the seven loadModule calls of initialize from the n-th on
RECURSIVE LoadModules(_, _, _, _)
LoadModules(shared, n, defined, throwing) ==
    IF n > Len(ModuleNames) THEN shared
    ELSE LoadModules(LoadModule(shared, ModuleNames[n],
                                ModuleNames[n] \in defined \ throwing,
                                IF ModuleNames[n] \in defined
                                THEN ConstructorError(ModuleNames[n])
                                ELSE ClassNotFound(ModuleNames[n])),
                     n + 1, defined, throwing)

\* getModule(name)
getModule(shared, name) ==
    IF name \in DOMAIN shared.modules /\ Truthy(shared.modules[name])
    THEN shared.modules[name]
    ELSE Null

\* a script defines the class of a module in the global scope; after
\* initialize nothing reads the classes any more
DefineClass(name) ==
    /\ ~PewpiShared.initialized
    /\ name \notin classes
    /\ classes' = classes \cup {name}
    /\ UNCHANGED <<PewpiShared, threw, result, adapterVars, tokenVars, authVars, walletVars,
                   listenerVars, notificationVars, modalVars>>

\* initialize(config) in a browser (window.localStorage and document) or
\* not, with config.storage given or not; the constructors in `throwing`
\* throw
Initialize(browser, storageGiven, throwing) ==
    IF PewpiShared.initialized
    THEN /\ result' = Returned("initialize", "", Obj(PewpiShared))
         /\ UNCHANGED <<loaderVars, adapterVars, tokenVars, authVars, walletVars,
                        listenerVars, notificationVars, modalVars>>
    ELSE LET storage == storageGiven \/ browser
             Loads(name) == name \in classes \ throwing
             shared == [LoadModules(PewpiShared, 1, classes, throwing)
                           EXCEPT !.initialized = TRUE]
             st == IF Loads("TokenService")
                   THEN [TokenState EXCEPT !.service =
                            [storage |-> storage, tokenCache |-> <<>>]]
                   ELSE TokenState
             auth == ConstructAuthService(Loads("TokenService"), storage, st, clock)
         IN  /\ PewpiShared' = shared
             /\ threw' = throwing
             /\ IF Loads("AuthService")
                THEN /\ SetTokenState(auth.st)
                     /\ authService' = auth.auth
                     /\ authNotified' = auth.notified
                     /\ sessionToken' = Null
                ELSE /\ SetTokenState(st)
                     /\ UNCHANGED authVars
             /\ IF Loads("WalletUnified")
                THEN /\ walletService' = ConstructWallet(storage, localStorage')
                     /\ walletNotified' = <<>>
                     /\ UNCHANGED walletsCreated
                ELSE UNCHANGED walletVars
             /\ IF Loads("IntegrationListener")
                THEN /\ listeners' = <<>>
                     /\ arrays' = <<>>
                     /\ eventQueue' = <<>>
                     /\ processing' = FALSE
                     /\ tasks' = {}
                     /\ queueWaits' = FALSE
                     /\ registered' = <<>>
                     /\ emitted' = <<>>
                     /\ invoked' = {}
                     /\ repeated' = {}
                     /\ completed' = <<>>
                ELSE UNCHANGED listenerVars
             /\ IF Loads("MachineAdapter")
                THEN /\ machines' = <<>>
                     /\ transitions' = <<>>
                     /\ stateCallbacks' = <<>>
                     /\ calls' = <<>>
                     /\ seen' = <<>>
                     /\ errors' = <<>>
                     /\ log' = <<>>
                     /\ stale' = {}
                     /\ origin' = <<>>
                ELSE UNCHANGED adapterVars
             /\ IF Loads("UINotification")
                THEN /\ notifier' = ConstructNotification(Undefined, browser)
                     /\ UNCHANGED <<shown, timers, dom, fading>>
                ELSE UNCHANGED notificationVars
             /\ IF Loads("UIModal")
                THEN /\ uiModal' = ConstructModal
                     /\ UNCHANGED <<modalElements, modalBody, modalTimers, modalCreated,
                                    modalClosed>>
                ELSE UNCHANGED modalVars
             /\ result' = Returned("initialize", "", Obj(shared))
             /\ UNCHANGED <<classes, clock>>

\* getModule(name)
GetModule(name) ==
    /\ result' = [op |-> "getModule", id |-> name, kind |-> "return",
                  value |-> getModule(PewpiShared, name)]
    /\ UNCHANGED <<loaderVars, adapterVars, tokenVars, authVars, walletVars,
                   listenerVars, notificationVars, modalVars>>

\* isReady()
IsReady ==
    /\ result' = Returned("isReady", "", Bool(PewpiShared.initialized))
    /\ UNCHANGED <<loaderVars, adapterVars, tokenVars, authVars, walletVars,
                   listenerVars, notificationVars, modalVars>>

-----------------------------------------------------------------------------
(* SpecLoader: the scripts of the modules define their classes, some or    *)
(* all, before or after initialize is called.                              *)

DoDefineClass == \E n \in 1..Len(ModuleNames) : DefineClass(ModuleNames[n])

DoInitialize ==
    \E browser \in BOOLEAN, storageGiven \in BOOLEAN :
        \E throwing \in IF PewpiShared.initialized THEN {{}} ELSE SUBSET classes :
            Initialize(browser, storageGiven, throwing)

DoGetModule == \E n \in 1..Len(ModuleNames) : GetModule(ModuleNames[n])

NextLoader ==
    \/ DoDefineClass
    \/ DoInitialize
    \/ DoGetModule
    \/ IsReady

SpecLoader == Init /\ [][NextLoader]_vars

-----------------------------------------------------------------------------
(* SpecOrder: one machine with the test configuration and callbacks, sent  *)
(* more events than the history keeps.                                     *)

OrderRegisterMachine == RegisterMachine("m1", TestConfig)

OrderOnStateChange ==
    \E callback \in {"L1", "L2"} :
        /\ "m1" \in DOMAIN stateCallbacks
        /\ Len(stateCallbacks["m1"]) < MaxListeners
        /\ OnStateChange("m1", Fn(callback))

OrderOffStateChange == OffStateChange("m1", "L1")

OrderSend ==
    /\ "m1" \in DOMAIN machines
    /\ Len(log["m1"]) < MaxSends
    /\ \E event \in Events : Send("m1", event, Num(Len(log["m1"]) + 1))

NextOrder ==
    \/ OrderRegisterMachine
    \/ OrderOnStateChange
    \/ OrderOffStateChange
    \/ OrderSend

SpecOrder == Init /\ [][NextOrder]_vars

-----------------------------------------------------------------------------
(* Callbacks that call the adapter while they are notified                 *)
(*   "S1"  change => { if (change.toState === 'running') adapter.send(id, 'stop') } *)
(*   "X1"  function self() { adapter.offStateChange(id, self) }             *)
(*   "XL"  () => adapter.offStateChange(id, L1)                             *)
(* send runs on the machine object and the callback array themselves, so a *)
(* send or an offStateChange inside a callback acts on what the outer send *)
(* and its forEach are working with.                                       *)

LiveCallbacks == {"S1", "X1", "XL"}

\* the objects a send works on: the machine, the callback array, and what
\* has happened since the outermost send began
Working(id) ==
    [machine |-> machines[id], callbacks |-> stateCallbacks[id],
     pushed |-> <<>>, seen |-> <<>>, errors |-> <<>>]

\* offStateChange(id, callback) on the working array (lines 218-226)
OffLive(st, callback) ==
    IF IndexOf(st.callbacks, callback) > 0
    THEN [st EXCEPT !.callbacks = Splice(@, IndexOf(st.callbacks, callback))]
    ELSE st

RECURSIVE SendLive(_, _, _, _)
RECURSIVE ForEachLive(_, _, _, _, _)
RECURSIVE CallLive(_, _, _, _)

\* the body of a callback, called with changeData
CallLive(st, id, callback, change) ==
    CASE callback = "S1" ->
           IF change.toState = RUNNING THEN SendLive(st, id, STOP, Null).st ELSE st
      [] callback = "X1" -> OffLive(st, "X1")
      [] callback = "XL" -> OffLive(st, "L1")
      [] OTHER -> st

\* callbacks.forEach (lines 282-288) from index k on: forEach reads the length
\* once, at its start, and skips an index the array no longer has; what it
\* finds at an index is what the array holds when it gets there
ForEachLive(st, id, k, length, change) ==
    IF k > length \/ k > Len(st.callbacks) THEN st
    ELSE LET callback == st.callbacks[k]
             called == [st EXCEPT !.seen = Append(@,
                           [callback |-> callback, toState |-> change.toState,
                            record |-> change.record, seq |-> change.seq,
                            machine |-> st.machine])]
             after == CallLive(called, id, callback, change)
             caught == IF Throws(callback)
                       THEN [after EXCEPT !.errors = Append(@, callback)]
                       ELSE after
         IN  ForEachLive(caught, id, k + 1, length, change)

\* send (lines 73-143) on the working objects: what it leaves and what it
\* returns or raises
SendLive(st, id, event, payload) ==
    LET machine == st.machine
        transition == MapGet(transitions[id], TransitionKey(machine.currentState, event))
    IN  IF NoTransition(transition)
        THEN [st |-> st, out |-> Returned("send", id, NoTransitionResult(machine, event))]
        ELSE
          LET r == Resolve(machine, transition, payload)
          IN  IF ~r.ok THEN [st |-> st, out |-> Threw("send", id, r.error)]
              ELSE
                LET record == Record(machine.currentState, r.toState, event, payload)
                    updated == [st EXCEPT
                        !.machine = [currentState |-> r.toState,
                                     context |-> r.context,
                                     history |-> PushHistory(machine.history, record)],
                        !.pushed = Append(@, record)]
                    change == [toState |-> r.toState, record |-> record,
                               seq |-> Len(updated.pushed)]
                    notified == ForEachLive(updated, id, 1, Len(updated.callbacks), change)
                IN  [st |-> notified,
                     out |-> Returned("send", id,
                                SuccessResult(machine.currentState, r.toState, event,
                                              notified.machine.context))]

\* adapter.send(id, event, payload) with callbacks that call the adapter
SendReentrant(id, event, payload) ==
    IF id \notin DOMAIN machines \/ id \notin DOMAIN transitions
    THEN Send(id, event, payload)
    ELSE LET s == SendLive(Working(id), id, event, payload)
         IN  /\ machines' = Put(machines, id, s.st.machine)
             /\ stateCallbacks' = Put(stateCallbacks, id, s.st.callbacks)
             /\ log' = Put(log, id, log[id] \o s.st.pushed)
             /\ calls' = [i \in 1..Len(s.st.seen) |-> s.st.seen[i].callback]
             /\ seen' = s.st.seen
             /\ errors' = s.st.errors
             /\ result' = s.out
             /\ origin' = Put(origin, id,
                    [origin[id] EXCEPT !.reached =
                        @ \cup {s.st.pushed[i].toState : i \in 1..Len(s.st.pushed)}])
             /\ UNCHANGED <<transitions, stale, sharedVars>>

-----------------------------------------------------------------------------
(* SpecLive: one machine with the test configuration and callbacks that    *)
(* call send and offStateChange from inside the notification, beside a     *)
(* callback that does nothing and one that raises.                         *)

LiveRegisterMachine == RegisterMachine("m1", TestConfig)

LiveOnStateChange ==
    \E callback \in LiveCallbacks \cup {"L1", "L2"} :
        ListenerRoom /\ OnStateChange("m1", Fn(callback))

LiveOffStateChange ==
    \E callback \in LiveCallbacks \cup {"L1", "L2"} : OffStateChange("m1", callback)

LiveSend ==
    /\ "m1" \in DOMAIN machines => Len(log["m1"]) < MaxLiveSends
    /\ \E event \in Events : SendReentrant("m1", event, Null)

LiveUpdateContext == \E updates \in Updates : UpdateContext("m1", updates)

LiveUnregisterMachine == UnregisterMachine("m1")

NextLive ==
    \/ LiveRegisterMachine
    \/ LiveOnStateChange
    \/ LiveOffStateChange
    \/ LiveSend
    \/ LiveUpdateContext
    \/ LiveUnregisterMachine

SpecLive == Init /\ [][NextLive]_vars

-----------------------------------------------------------------------------
(* SpecLiveCap: one machine with the test configuration, never reset, sent *)
(* more events than the history keeps while a callback sends from inside   *)
(* the notification.                                                       *)

LiveCapRegisterMachine == RegisterMachine("m1", TestConfig)

LiveCapOnStateChange ==
    \E callback \in {"S1", "L1"} : ListenerRoom /\ OnStateChange("m1", Fn(callback))

LiveCapSend ==
    /\ "m1" \in DOMAIN machines => Len(log["m1"]) < MaxSends
    /\ \E event \in Events : SendReentrant("m1", event, Null)

LiveCapUnregisterMachine == UnregisterMachine("m1")

NextLiveCap ==
    \/ LiveCapRegisterMachine
    \/ LiveCapOnStateChange
    \/ LiveCapSend
    \/ LiveCapUnregisterMachine

SpecLiveCap == Init /\ [][NextLiveCap]_vars

-----------------------------------------------------------------------------
(* SpecDrain: events of one type emitted to the queue while earlier ones   *)
(* are being processed, with listeners and one-time listeners registered   *)
(* and removed in between.                                                 *)

DrainOn ==
    \E once \in BOOLEAN :
        /\ Cardinality(DOMAIN registered) < MaxDrainListeners
        /\ On(TestEvent, once, 0, Null)

DrainOff == \E listenerId \in DOMAIN registered : OffCall(listenerId)

DrainEmit ==
    /\ Cardinality(DOMAIN emitted) < MaxDrainEvents
    /\ Emit(TestEvent, 1, TRUE)

DrainResume == \E task \in tasks : Resume(task)

NextDrain ==
    \/ DrainOn
    \/ DrainOff
    \/ DrainEmit
    \/ DrainResume
    \/ ResumeQueue

SpecDrain == Init /\ [][NextDrain]_vars

-----------------------------------------------------------------------------
(* SpecQueue: a burst of emits that fills the queue beyond maxQueueSize.   *)
(* The events are numbered.  The emits of the burst follow one another in  *)
(* one run of the caller, so no suspended call goes on before the queue is *)
(* nearly full; from then on emits, handlers settling and the loop of      *)
(* _processQueue interleave freely until the queue is drained.  A listener *)
(* is registered before the burst.                                         *)

\* whether the caller's burst has come far enough for other work to run
BurstOver ==
    \/ Cardinality(DOMAIN emitted) <= 1
    \/ Cardinality(DOMAIN emitted) >= maxQueueSize

QueueOn ==
    /\ registered = <<>>
    /\ On(TestEvent, FALSE, 0, Null)

QueueEmit ==
    /\ registered # <<>>
    /\ Cardinality(DOMAIN emitted) < MaxQueued
    /\ EmitEvent(Cardinality(DOMAIN emitted) + 1, TestEvent, 1, TRUE)

QueueResume == BurstOver /\ \E task \in tasks : Resume(task)

QueueResumeQueue == BurstOver /\ ResumeQueue

NextQueue ==
    \/ QueueOn
    \/ QueueEmit
    \/ QueueResume
    \/ QueueResumeQueue

SpecQueue == Init /\ [][NextQueue]_vars

-----------------------------------------------------------------------------
(* Properties *)

Min(a, b) == IF a < b THEN a ELSE b

Registry == <<machines, transitions, stateCallbacks>>

\* the last call was a send that made a transition
SendSucceeded ==
    result.op = "send" /\ result.kind = "return" /\ result.value.success

\* C1: under SpecCap, every history holds at most 100 records and is exactly the
\* last min(n, 100) of the n records pushed since it was last empty, in the order
\* of the sends; at n = 101 the oldest record alone is gone.
C1_HistoryIsRecentWindow ==
    \A id \in DOMAIN machines :
        LET h == machines[id].history
            l == log[id]
        IN  /\ Len(h) <= HistoryLimit
            /\ Len(h) = Min(Len(l), HistoryLimit)
            /\ \A i \in 1..Len(h) : h[i] = l[Len(l) - Len(h) + i]

\* C1 witness: two more records were pushed than the history keeps
C1_Witness ==
    /\ "m1" \in DOMAIN machines
    /\ Len(log["m1"]) = HistoryLimit + 2
    /\ Len(machines["m1"].history) = HistoryLimit
    /\ machines["m1"].history[1].payload = Num(3)

\* C2: a send on a registered machine whose table has no entry under the key of
\* (currentState, event) returns success=false with fromState = toState = the
\* current state, changes neither the machine (state, context, history) nor the
\* rest of the registry, and calls no callback.
C2_NoEntrySendChangesNothing ==
    [][\A id \in Ids, event \in Events, payload \in Payloads :
        ( /\ id \in DOMAIN machines
          /\ ~MapHas(transitions[id], machines[id].currentState \o <<":">> \o event)
          /\ Send(id, event, payload) )
        => /\ result'.kind = "return"
           /\ result'.value = [success |-> FALSE,
                               fromState |-> machines[id].currentState,
                               toState |-> machines[id].currentState,
                               event |-> event]
           /\ Registry' = Registry
           /\ calls' = <<>>]_vars

\* C2 witness: a send failed on a machine that has a callback, a context and a history
C2_Witness ==
    /\ result.op = "send" /\ result.kind = "return" /\ ~result.value.success
    /\ result.id \in DOMAIN machines
    /\ stateCallbacks[result.id] # <<>>
    /\ machines[result.id].history # <<>>
    /\ machines[result.id].context # <<>>
    /\ ~MapHas(transitions[result.id],
               machines[result.id].currentState \o <<":">> \o result.value.event)

\* C3: a send to an identifier with no registered machine raises the not-found
\* error and leaves machines, transition tables and callback lists as they were.
C3_SendUnknownThrows ==
    [][\A id \in Ids, event \in Events, payload \in Payloads :
        (id \notin DOMAIN machines /\ Send(id, event, payload))
        => /\ result' = [op |-> "send", id |-> id, kind |-> "throw",
                         value |-> [type |-> "error", name |-> "Error",
                                    message |-> "not found"]]
           /\ Registry' = Registry]_vars

\* C3 witness: a send raised for an unknown identifier while another is registered
C3_Witness ==
    /\ result.op = "send" /\ result.kind = "throw"
    /\ result.id \notin DOMAIN machines
    /\ DOMAIN machines # {}

\* C4 as stated: a send against an unknown identifier does not raise; it returns
\* null or a success=false result.
C4_SendUnknownFailsSoftly ==
    (result.op = "send" /\ result.id \notin DOMAIN machines)
    => /\ result.kind = "return"
       /\ \/ result.value = Null
          \/ result.value.success = FALSE

\* C4 amended: a send against an unknown identifier raises and returns no value;
\* only the lookups getState, getContext, isInState and getHistory fail softly,
\* with null, false and the empty sequence.
C4_OnlyLookupsFailSoftly ==
    /\ (result.op = "send" /\ result.id \notin DOMAIN machines) => result.kind = "throw"
    /\ \A id \in Ids \ DOMAIN machines :
          /\ getState(id) = Null
          /\ getContext(id) = Null
          /\ \A state \in {IDLE, RUNNING, EMPTY} : ~isInState(id, state)
          /\ getHistory(id, DefaultHistoryLimit) = <<>>

\* C4 witness: a send was made to an identifier that is not registered
C4_Witness ==
    /\ result.op = "send"
    /\ result.id \notin DOMAIN machines
    /\ result.id \in Ids

\* C5: registerTransition on an identifier with no registered machine raises the
\* not-registered error and creates no machine, table or callback list for it.
C5_RegisterTransitionUnknownThrows ==
    [][\A id \in Ids, fromState \in FromStates, event \in RegisterEvents, to \in Targets :
        (id \notin DOMAIN machines /\ RegisterTransition(id, fromState, event, to))
        => /\ result' = [op |-> "registerTransition", id |-> id, kind |-> "throw",
                         value |-> NotRegistered]
           /\ Registry' = Registry
           /\ id \notin (DOMAIN machines') \cup (DOMAIN transitions')
                            \cup (DOMAIN stateCallbacks')]_vars

\* C5 witness: registerTransition raised for an unknown identifier
C5_Witness ==
    /\ result.op = "registerTransition" /\ result.kind = "throw"
    /\ result.id \notin DOMAIN machines

\* the (fromState, event, target) triples of a nested transitions configuration
ConfigTriples(config) ==
    IF config.transitions.type # "object" THEN {}
    ELSE UNION {{[fromState |-> config.transitions.o[i].from,
                  event |-> config.transitions.o[i].entries[j].event,
                  to |-> config.transitions.o[i].entries[j].to] :
                    j \in 1..Len(config.transitions.o[i].entries)} :
                 i \in 1..Len(config.transitions.o)}

\* C6: registering an identifier that is already registered leaves a machine with
\* the new configuration's initial state ("idle" when it gives none) and context,
\* an empty history, exactly the transitions of the new configuration and an
\* empty callback list; no later send calls a callback registered before the
\* re-registration unless it was registered again.
C6_ReRegistrationReplaces ==
    [][/\ \A id \in Ids, config \in Configs :
            (id \in DOMAIN machines /\ RegisterMachine(id, config))
            => /\ machines'[id].currentState =
                    (IF config.initialState.type = "string" /\ config.initialState.s # <<>>
                     THEN config.initialState.s ELSE <<"idle">>)
               /\ machines'[id].context =
                    (IF config.context.type = "object" THEN config.context.o ELSE <<>>)
               /\ machines'[id].history = <<>>
               /\ Range(transitions'[id]) =
                    {[key |-> t.fromState \o <<":">> \o t.event, value |-> t.to] :
                        t \in ConfigTriples(config)}
               /\ Len(transitions'[id]) = Cardinality(ConfigTriples(config))
               /\ stateCallbacks'[id] = <<>>
       /\ result'.op = "send" =>
            \A k \in 1..Len(calls') : <<result'.id, calls'[k]>> \notin stale']_vars

\* C6 witness: a send made a transition and called a callback on a machine that
\* has a callback registered before its re-registration and not since
C6_Witness ==
    /\ SendSucceeded
    /\ calls # <<>>
    /\ \E cb \in Callbacks : <<result.id, cb>> \in stale

SameDomains ==
    /\ DOMAIN machines = DOMAIN transitions
    /\ DOMAIN transitions = DOMAIN stateCallbacks

\* C7: in every reachable state an identifier has a transition table iff it has a
\* callback list iff it has a machine entry; registerMachine leaves the identifier
\* with all three, unregisterMachine with none, and unregistering an unknown
\* identifier changes nothing in the registry.
C7_NoOrphanedState ==
    /\ SameDomains
    /\ [][/\ SameDomains'
          /\ \A id \in Ids :
               /\ \A config \in Configs :
                     RegisterMachine(id, config) => id \in DOMAIN machines'
               /\ UnregisterMachine(id) =>
                     /\ id \notin (DOMAIN machines') \cup (DOMAIN transitions')
                                      \cup (DOMAIN stateCallbacks')
                     /\ id \notin DOMAIN machines => Registry' = Registry]_vars

\* C7 witness: a machine with a callback and a history was unregistered while
\* another stays registered
C7_Witness ==
    /\ result.op = "unregisterMachine"
    /\ DOMAIN machines = {"m2"}
    /\ "m1" \notin (DOMAIN transitions) \cup (DOMAIN stateCallbacks)
    /\ \E cb \in Callbacks : <<"m1", cb>> \in stale

C9_ListenerFailureIsolated ==
    /\ result.op = "send" /\ result.kind = "throw" => result.value.message # "callback"
    /\ errors # <<>> =>
          /\ SendSucceeded
          /\ calls = stateCallbacks[result.id]
          /\ machines[result.id].currentState = result.value.toState
          /\ machines[result.id].history # <<>>
          /\ LET last == machines[result.id].history[Len(machines[result.id].history)]
             IN  last.toState = result.value.toState /\ last.event = result.value.event

\* C9 witness: the first callback raised and the second was still called
C9_Witness ==
    /\ SendSucceeded
    /\ errors = <<"L2">>
    /\ calls = <<"L2", "L1">>

\* C10 as stated: when the table holds a literal label for (currentState, event),
\* send returns success=true with fromState the state before the call and toState
\* the label; afterwards getState is the label and the context is as before.
C10_LiteralTransitionTaken ==
    [][\A id \in Ids, event \in Events, payload \in Payloads :
        ( /\ id \in DOMAIN machines
          /\ MapGet(transitions[id], machines[id].currentState \o <<":">> \o event).type
                = "string"
          /\ Send(id, event, payload) )
        => LET label == MapGet(transitions[id],
                               machines[id].currentState \o <<":">> \o event).s
           IN  /\ result'.kind = "return"
               /\ result'.value.success
               /\ result'.value.fromState = machines[id].currentState
               /\ result'.value.toState = label
               /\ getState(id)' = Str(label)
               /\ machines'[id].context = machines[id].context]_vars

\* the table value send finds for (currentState, event)
Found(id, event) == MapGet(transitions[id], machines[id].currentState \o <<":">> \o event)

\* C11: when the transition taken is a handler, the context after the send has
\* the keys of the previous context and of the handler's context patch, each
\* patch key with the patch's value and every other key with its previous value;
\* when the handler returns no context patch the context is as before.
C11_HandlerContextMerged ==
    [][\A id \in Ids, event \in HandlerEvents, payload \in HandlerPayloads :
        ( /\ id \in DOMAIN machines
          /\ Found(id, event).type = "function"
          /\ Handler(Found(id, event).fn, machines[id].context, payload).value.type = "object"
          /\ Send(id, event, payload) )
        => LET old == machines[id].context
               new == machines'[id].context
               returned == Handler(Found(id, event).fn, old, payload).value.o
           IN  IF returned.context.type = "object"
               THEN /\ DOMAIN new = (DOMAIN old) \cup (DOMAIN returned.context.o)
                    /\ \A k \in DOMAIN returned.context.o : new[k] = returned.context.o[k]
                    /\ \A k \in (DOMAIN old) \ (DOMAIN returned.context.o) : new[k] = old[k]
               ELSE new = old]_vars

\* C11 witness: a handler's patch {a: 1} replaced a: 0 and left c: 3
C11_Witness ==
    /\ SendSucceeded
    /\ result.value.event = GO
    /\ machines[result.id].context = [a |-> 1, c |-> 3]
    /\ result.value.context = [a |-> 1, c |-> 3]

\* C12 as stated: when the transition taken is a handler, send returns
\* success=true and the state afterwards is the state the handler returned, or
\* the state before the call when the handler returned none.
C12_HandlerTargetIsReturnedState ==
    [][\A id \in Ids, event \in HandlerEvents, payload \in HandlerPayloads :
        ( /\ id \in DOMAIN machines
          /\ Found(id, event).type = "function"
          /\ Handler(Found(id, event).fn, machines[id].context, payload).value.type = "object"
          /\ Send(id, event, payload) )
        => LET returned == Handler(Found(id, event).fn, machines[id].context, payload).value.o
               target == IF returned.state.type = "string" THEN returned.state.s
                         ELSE machines[id].currentState
           IN  /\ result'.kind = "return"
               /\ result'.value.success
               /\ result'.value.toState = target
               /\ machines'[id].currentState = target]_vars

\* C13: a send that returns success=true leaves the history as it was with one
\* record added at its end (the history being below its limit), the record
\* holding the state before the call, the state after it, the event and the
\* payload as passed; this includes a send that stays in its state.  Any other
\* send leaves the history as it was.
C13_SuccessfulSendAppendsRecord ==
    [][\A id \in Ids, event \in HandlerEvents, payload \in HandlerPayloads :
        (id \in DOMAIN machines /\ Send(id, event, payload))
        => IF result'.kind = "return" /\ result'.value.success
           THEN /\ Len(machines[id].history) < HistoryLimit
                /\ machines'[id].history =
                      Append(machines[id].history,
                             [fromState |-> machines[id].currentState,
                              toState |-> machines'[id].currentState,
                              event |-> event,
                              payload |-> payload])
                /\ result'.value.fromState = machines[id].currentState
                /\ result'.value.toState = machines'[id].currentState
           ELSE machines'[id].history = machines[id].history]_vars

\* C13 witness: the second record of a history is a send that stayed in its
\* state, with the payload it was sent with
C13_Witness ==
    /\ SendSucceeded
    /\ Len(machines[result.id].history) = 2
    /\ machines[result.id].history[2].fromState = machines[result.id].history[2].toState
    /\ machines[result.id].history[2].payload.type = "object"
    /\ machines[result.id].history[2].event = result.value.event

\* C14: updateContext(id, patch) on a registered machine leaves a context with
\* the keys of the old context and of the patch, the patch's values winning,
\* and changes neither the state nor the history of the machine, nor any other
\* machine, table or callback list, and calls no callback; on an unknown
\* identifier it changes nothing.
C14_UpdateContextOnlyMerges ==
    [][\A id \in Ids, updates \in Updates :
        UpdateContext(id, updates)
        => /\ IF id \in DOMAIN machines
              THEN LET old == machines[id].context
                       new == machines'[id].context
                   IN  /\ DOMAIN machines' = DOMAIN machines
                       /\ DOMAIN new = (DOMAIN old) \cup (DOMAIN updates)
                       /\ \A k \in DOMAIN updates : new[k] = updates[k]
                       /\ \A k \in (DOMAIN old) \ (DOMAIN updates) : new[k] = old[k]
                       /\ machines'[id].currentState = machines[id].currentState
                       /\ machines'[id].history = machines[id].history
                       /\ \A other \in (DOMAIN machines) \ {id} :
                             machines'[other] = machines[other]
              ELSE machines' = machines
           /\ transitions' = transitions
           /\ stateCallbacks' = stateCallbacks
           /\ calls' = <<>>]_vars

\* C14 witness: a context {a: 1} was given b: 1 on a machine that has a history
\* and a callback
C14_Witness ==
    /\ result.op = "updateContext"
    /\ "m1" \in DOMAIN machines
    /\ machines["m1"].context = [a |-> 1, b |-> 1]
    /\ machines["m1"].history # <<>>
    /\ stateCallbacks["m1"] # <<>>
    /\ calls = <<>>

\* C15: reset(id, clearHistory) on a registered machine leaves an empty context;
\* the history is empty afterwards when clearHistory is true and is the history
\* of before when it is false; the transition tables and the callback lists are
\* as before.
C15_ResetClearsContext ==
    [][\A id \in Ids, clearHistory \in BOOLEAN :
        (id \in DOMAIN machines /\ Reset(id, clearHistory))
        => /\ machines'[id].context = <<>>
           /\ machines'[id].history = IF clearHistory THEN <<>> ELSE machines[id].history
           /\ transitions' = transitions
           /\ stateCallbacks' = stateCallbacks]_vars

\* C15 witness: after a reset the record of a handler that had patched the
\* context is still in the history, and the context is empty
C15_Witness ==
    /\ result.op = "reset"
    /\ "m1" \in DOMAIN machines
    /\ machines["m1"].context = <<>>
    /\ machines["m1"].history # <<>>
    /\ machines["m1"].history[1].event = STOP
    /\ machines["m1"].history[1].toState = RUNNING
    /\ transitions["m1"] # <<>>
    /\ stateCallbacks["m1"] # <<>>

\* C16 as stated: reset(id) on a registered machine leaves currentState = the
\* fromState that the first entry of the machine's transition table was
\* registered with, whatever that label is, and 'idle' when the table is empty.
C16_ResetToFirstFromState ==
    [][\A id \in Ids, clearHistory \in BOOLEAN :
        (id \in DOMAIN machines /\ Reset(id, clearHistory))
        => IF transitions[id] = <<>>
           THEN machines'[id].currentState = <<"idle">>
           ELSE \E fromState \in ResetFromStates, event \in Events :
                   /\ transitions[id][1].key = fromState \o <<":">> \o event
                   /\ machines'[id].currentState = fromState]_vars

\* C17 as stated: after reset(id) the currentState of a registered machine is
\* the initial state registerMachine gave it.
C17_ResetToInitialState ==
    [][\A id \in Ids, clearHistory \in BOOLEAN :
        (id \in DOMAIN machines /\ Reset(id, clearHistory))
        => machines'[id].currentState = origin[id].initialState]_vars

\* C18: the currentState of every registered machine is a string, never
\* undefined or null, in every state reached by registerMachine,
\* registerTransition, send, updateContext, reset and the callback operations.
C18_CurrentStateDefined ==
    \A id \in DOMAIN machines :
        /\ machines[id].currentState # NoState
        /\ getState(id).type = "string"
        /\ getState(id) # Null /\ getState(id) # Undefined

\* C18 witness: a handler that returned no state was run, and the machine is
\* still in 'running'
C18_Witness ==
    /\ SendSucceeded
    /\ result.value.event = STOP
    /\ result.value.fromState = RUNNING
    /\ result.value.toState = RUNNING
    /\ getState(result.id) = Str(RUNNING)

\* C19 as stated: the currentState of every registered machine is the initial
\* state it was registered with or the target of a send made on it since.
C19_StateIsInitialOrTarget ==
    \A id \in DOMAIN machines : machines[id].currentState \in origin[id].reached

\* C20 as stated: getHistory(id, limit), limit >= 0 and 10 when not passed,
\* returns the last min(limit, length) records of the history in their order,
\* the empty sequence for an unknown identifier, and leaves the history as it is.
C20_GetHistoryLastRecords ==
    [][\A id \in Ids, limit \in HistoryLimits :
        GetHistory(id, limit)
        => LET n == IF limit = Undefined THEN 10 ELSE limit.n
           IN  /\ result'.value.a =
                     IF id \notin DOMAIN machines THEN <<>>
                     ELSE LET h == machines[id].history
                              k == Min(n, Len(h))
                          IN  [i \in 1..k |-> h[Len(h) - k + i]]
               /\ machines' = machines]_vars

\* C22: validateToken(id) answers true exactly when a token with that id was
\* generated, was not revoked, and its expiry is not before the clock (a token
\* generated with lifetime 1 or with no end is accepted at once); and it never
\* answers true for a token it has answered false for.
C22_ValidateTokenExact ==
    [][\A n \in 1..Len(TokenIds) :
        ValidateTokenCall(TokenIds[n])
        => LET id == TokenIds[n]
               live == /\ id \in DOMAIN issued.expiry
                       /\ id \notin issued.revoked
                       /\ \/ issued.expiry[id] = PosInfinity
                          \/ issued.expiry[id].n >= clock
           IN  /\ result'.value = Bool(live)
               /\ result'.value.b => id \notin issued.refused]_vars

\* C22 witness: a token refused after its expiry is refused again when the
\* clock is back before the expiry
C22_Witness ==
    /\ result.op = "validateToken"
    /\ result.value = Bool(FALSE)
    /\ result.id \in issued.refused
    /\ issued.expiry[result.id] = Num(clock)
    /\ tokenService.storage
    /\ TokenKey(result.id) \notin DOMAIN localStorage

\* C21 as stated: after registerMachine(id, config), getState(id) is
\* config.initialState when the configuration supplies one and 'idle' when it
\* does not, the history is empty, and the transition table has one entry for
\* each (fromState, event) -> target of config.transitions and no other.
C21_RegisterMachineResult ==
    [][\A id \in Ids, config \in ResetConfigs :
        RegisterMachine(id, config)
        => /\ getState(id)' = (IF config.initialState.type = "string"
                               THEN config.initialState ELSE Str(<<"idle">>))
           /\ getHistory(id, 10)' = <<>>
           /\ machines'[id].history = <<>>
           /\ Range(transitions'[id]) =
                {[key |-> t.fromState \o <<":">> \o t.event, value |-> t.to] :
                    t \in ConfigTriples(config)}
           /\ Len(transitions'[id]) = Cardinality(ConfigTriples(config))]_vars

\* C23: authenticate returns success=true with the user and a token exactly
\* when the credentials hold a non-empty username, and isAuthenticated() is
\* then true and stays true until logout (or a new AuthService); otherwise it
\* returns success=false with an error and leaves the current user and the
\* storage as they were.
C23_AuthenticateNeedsUsername ==
    [][/\ \A credentials \in Credentials :
            Authenticate(credentials)
            => IF /\ credentials.type = "object"
                  /\ credentials.o.username.type = "string"
                  /\ credentials.o.username.s # <<>>
               THEN /\ result'.value.o.success
                    /\ result'.value.o.user.username = credentials.o.username.s
                    /\ Str(result'.value.o.token) = sessionToken'
                    /\ isAuthenticated(authService')
                    /\ getCurrentUser(authService') = Obj(result'.value.o.user)
               ELSE /\ ~result'.value.o.success
                    /\ result'.value.o.error = "Username is required"
                    /\ authService'.currentUser = authService.currentUser
                    /\ localStorage' = localStorage
       /\ (isAuthenticated(authService) /\ ~isAuthenticated(authService'))
            => \/ LogoutCall
               \/ \E withTokenService \in BOOLEAN, withStorage \in BOOLEAN :
                     NewAuthService(withTokenService, withStorage)]_vars

\* C23 witness: an authenticate without username was refused while a user is
\* authenticated and the session is stored
C23_Witness ==
    /\ result.op = "authenticate"
    /\ ~result.value.o.success
    /\ isAuthenticated(authService)
    /\ UserKey \in DOMAIN localStorage
    /\ sessionToken # Null

\* C24 as stated: after logout() isAuthenticated() is false, getCurrentUser()
\* is null, the stored session keys are gone and the token of the session does
\* not validate; the callbacks are called, with authenticated=false, only when
\* a user was authenticated at the call.
C24_LogoutEndsSession ==
    [][LogoutCall
        => /\ ~isAuthenticated(authService')
           /\ getCurrentUser(authService') = Null
           /\ authService.storage =>
                 /\ UserKey \notin DOMAIN localStorage'
                 /\ SessionTokenKey \notin DOMAIN localStorage'
           /\ (authService.tokenService /\ isAuthenticated(authService)
                  /\ sessionToken # Null)
                 => ~ValidateToken([service |-> tokenService', storage |-> localStorage',
                                    issued |-> issued'], clock, sessionToken.s).ok
           /\ authNotified' # <<>> => isAuthenticated(authService)
           /\ \A i \in 1..Len(authNotified') : ~authNotified'[i].authenticated]_vars

\* C25: setActiveWallet(id) returns true and makes getActiveWallet() return
\* the wallet with that id when the wallet exists; for an id no wallet has it
\* returns false and leaves the active wallet as it was.
C25_SetActiveWallet ==
    [][\A walletId \in WalletIdInputs :
          SetActiveWallet(walletId)
          => IF \E i \in 1..Len(walletService.wallets) :
                   walletService.wallets[i].id = walletId
             THEN /\ result'.value = Bool(TRUE)
                  /\ getActiveWallet(walletService') # Null
                  /\ getActiveWallet(walletService').o.id = walletId
                  /\ getActiveWallet(walletService') = getWallet(walletService', walletId)
             ELSE /\ result'.value = Bool(FALSE)
                  /\ walletService'.activeWallet = walletService.activeWallet
                  /\ getActiveWallet(walletService') = getActiveWallet(walletService)]_vars

\* C25 witness: a second wallet was activated while another one was active
\* before
C25_Witness ==
    /\ result.op = "setActiveWallet"
    /\ result.value = Bool(TRUE)
    /\ walletService.activeWallet = Str(WalletIds[2])
    /\ Len(walletService.wallets) = 2
    /\ ActiveWalletKey \in DOMAIN localStorage

\* the handler calls made for an event to a listener
CallsOf(listenerId, eventId) ==
    {call \in invoked : call.listener = listenerId /\ call.event = eventId}

\* the listeners the map holds, for any event type
AllRegistered == UNION {RegisteredFor(Bus, t) : t \in DOMAIN listeners}

\* C26 as stated: every event emitted in the queued mode is at last processed,
\* and then every listener that was registered for its type from the emit to
\* the end of its processing, and whose filter accepts it, has been called for
\* it exactly once, with the data of the emit; no listener is called twice for
\* it; and when events are pending the queue is at last empty and processing
\* false.
C26_QueuedEventDeliveredOnce ==
    /\ [](\A e \in DOMAIN completed :
            emitted[e].queued
            => \A l \in emitted[e].audience \cap completed[e] :
                  /\ CallsOf(l, e) = {[listener |-> l, event |-> e, data |-> emitted[e].data]}
                  /\ <<l, e>> \notin repeated)
    /\ [](\A call \in invoked :
            emitted[call.event].queued
            => /\ <<call.listener, call.event>> \notin repeated
               /\ call.data = emitted[call.event].data)
    /\ \A n \in 1..Len(EventIds) :
          (EventIds[n] \in DOMAIN emitted /\ emitted[EventIds[n]].queued)
              ~> (EventIds[n] \in DOMAIN completed)
    /\ (eventQueue # <<>> \/ processing) ~> (eventQueue = <<>> /\ ~processing)

\* C27 as stated: a listener registered with once is called for at most one
\* event, whatever queued and synchronous emits there are, and is not
\* registered any more once that event has been processed.
C27_OnceListenerCalledOnce ==
    \A l \in DOMAIN registered :
        registered[l].once
        => /\ Cardinality({call.event : call \in {c \in invoked : c.listener = l}}) <= 1
           /\ \A e \in DOMAIN completed : CallsOf(l, e) # {} => l \notin AllRegistered

\* C29 as stated: after clear() the notifications list is empty, whatever
\* number of notifications was showing.
C29_ClearEmptiesList ==
    [][Clear => notifier'.notifications = <<>>]_vars

\* the places of a module name in errors
ErrorsOf(shared, name) == {i \in 1..Len(shared.errors) : shared.errors[i].module = name}

\* C28: initialize ends with initialized = true whatever loaders throw; a
\* module whose loader throws is recorded in errors and getModule returns null
\* for it, every other module is loaded; and once initialized, each of the 7
\* module names is in exactly one of modules and errors.
C28_InitializeIsolatesFailures ==
    [][/\ (~PewpiShared.initialized /\ result'.op = "initialize")
            => /\ PewpiShared'.initialized
               /\ \A n \in 1..Len(ModuleNames) :
                     LET name == ModuleNames[n]
                     IN  IF name \in classes \ threw'
                         THEN /\ name \in DOMAIN PewpiShared'.modules
                              /\ getModule(PewpiShared', name) # Null
                              /\ ErrorsOf(PewpiShared', name) = {}
                         ELSE /\ name \notin DOMAIN PewpiShared'.modules
                              /\ getModule(PewpiShared', name) = Null
                              /\ Cardinality(ErrorsOf(PewpiShared', name)) = 1
       /\ PewpiShared'.initialized
            => /\ Len(ModuleNames) = 7
               /\ \A n \in 1..Len(ModuleNames) :
                     (ModuleNames[n] \in DOMAIN PewpiShared'.modules)
                        # (ErrorsOf(PewpiShared', ModuleNames[n]) # {})]_vars

\* C28 witness: after an initialize in which the first loader threw and a
\* later one did not, getModule has returned null
C28_Witness ==
    /\ PewpiShared.initialized
    /\ ErrorsOf(PewpiShared, ModuleNames[1]) # {}
    /\ ModuleNames[2] \in DOMAIN PewpiShared.modules
    /\ ModuleNames[7] \in DOMAIN PewpiShared.modules
    /\ ErrorsOf(PewpiShared, ModuleNames[6]) # {}
    /\ result.op = "getModule"
    /\ result.value = Null

HandlerResultOf(id, event, payload) ==
    LET machine == machines[id]
        transition == MapGet(transitions[id], TransitionKey(machine.currentState, event))
    IN  IF transition.type = "function"
        THEN [handler |-> TRUE, r |-> Handler(transition.fn, machine.context, payload)]
        ELSE [handler |-> FALSE]

\* C33: a send whose handler raises or returns no result (undefined or null)
\* fails by raising, and applies nothing: the machine (currentState, context,
\* history) is as before and no callback is called.  A handler that returns
\* a string has returned a result without `state`: the send succeeds with
\* the current state as target.
C33_FailedHandlerAppliesNothing ==
    [][\A event \in FailingEvents, payload \in FailingPayloads :
          IF "m1" \in DOMAIN machines /\ Send("m1", event, payload)
          THEN LET h == HandlerResultOf("m1", event, payload)
               IN  /\ (h.handler /\ (h.r.kind = "throw" \/ Nullish(h.r.value)))
                      => /\ result'.op = "send"
                         /\ result'.kind = "throw"
                         /\ machines' = machines
                         /\ log' = log
                         /\ calls' = <<>>
                   /\ (h.handler /\ h.r.kind = "return" /\ h.r.value.type = "string")
                      => /\ result'.kind = "return"
                         /\ result'.value.success
                         /\ result'.value.toState = machines["m1"].currentState
                         /\ calls' = stateCallbacks["m1"]
          ELSE TRUE]_vars

\* C33 witness: a send has just failed in its handler on a machine that has
\* callbacks, a history and a changed context
C33_Witness ==
    /\ result.op = "send"
    /\ result.kind = "throw"
    /\ result.value.message = "handler"
    /\ "m1" \in DOMAIN machines
    /\ Len(stateCallbacks["m1"]) = 2
    /\ machines["m1"].history # <<>>
    /\ machines["m1"].context.a = 1
    /\ calls = <<>>

\* C31: a callback is told of the transitions of a machine in the order of
\* their records in the history, also when a callback sends to the machine
\* from inside the notification: of two calls of one callback during a send,
\* the earlier is for the record pushed earlier.
C31_NotifiedInHistoryOrder ==
    \A i, j \in 1..Len(seen) :
        (i < j /\ seen[i].callback = seen[j].callback) => seen[i].seq <= seen[j].seq

\* how often the callback was called for the s-th record of the last send
TimesCalled(callback, s) ==
    Cardinality({i \in 1..Len(seen) : seen[i].callback = callback /\ seen[i].seq = s})

\* how often the callback is in the array
TimesRegistered(callbacks, callback) ==
    Cardinality({i \in 1..Len(callbacks) : callbacks[i] = callback})

\* C32: when a callback calls offStateChange while it is notified, every
\* callback still registered afterwards has been called exactly once (once
\* per registration) for each transition of the send.
C32_OthersNotifiedOnce ==
    (result.op = "send" /\ result.kind = "return" /\ result.id = "m1"
        /\ result.value.success)
    => \A s \in {1} \cup {seen[i].seq : i \in 1..Len(seen)} :
          \A callback \in Range(stateCallbacks["m1"]) :
              TimesCalled(callback, s) = TimesRegistered(stateCallbacks["m1"], callback)

\* each record of the history starts where the record before it ended, and
\* the last record ends in the current state
Chained(machine) ==
    /\ \A i \in 1..(Len(machine.history) - 1) :
          machine.history[i + 1].fromState = machine.history[i].toState
    /\ machine.history # <<>>
          => machine.history[Len(machine.history)].toState = machine.currentState

\* C34: the history of a machine that has not been reset since it was
\* registered chains and ends in currentState, after every call and at every
\* call of a callback, beyond 100 records and with sends from callbacks.
C34_HistoryChains ==
    /\ \A id \in DOMAIN machines : Chained(machines[id])
    /\ \A i \in 1..Len(seen) : Chained(seen[i].machine)

\* C34 witness: the history is full and has lost records, and the last send
\* was answered by a send from a callback (a second record in one send)
C34_Witness ==
    /\ "m1" \in DOMAIN machines
    /\ Len(machines["m1"].history) = HistoryLimit
    /\ Len(log["m1"]) > HistoryLimit + 1
    /\ \E i \in 1..Len(seen) : seen[i].seq = 2

\* the place of an event id in the order the ids are given out
EventNumber(eventId) == CHOOSE n \in 1..Len(EventIds) : EventIds[n] = eventId

\* C36: the queued events are processed one at a time, in the order of their
\* emission, by at most one loop of _processQueue: while `processing` is set
\* exactly one loop exists, at one event or between two, and a handler has
\* been called for a queued event only when _processEvent has finished, with
\* all its handlers, for every queued event emitted before it.
C36_QueueDrainedInOrder ==
    /\ Cardinality({task \in tasks : task.queued}) + (IF queueWaits THEN 1 ELSE 0)
          = (IF processing THEN 1 ELSE 0)
    /\ ~processing => eventQueue = <<>>
    /\ \A e \in 1..Len(eventQueue) :
          \A call \in invoked : call.event # eventQueue[e].id
    /\ \A a, b \in DOMAIN emitted :
          ( /\ emitted[a].queued
            /\ emitted[b].queued
            /\ EventNumber(a) < EventNumber(b)
            /\ \E call \in invoked : call.event = b )
          => a \in DOMAIN completed

\* C36 witness: an event was emitted while the loop waits for a handler of
\* the event before it, and stays in the queue
C36_Witness ==
    /\ processing
    /\ \E task \in tasks :
          /\ task.queued
          /\ task.event.id = EventIds[1]
          /\ \E call \in invoked : call.event = EventIds[1]
    /\ Len(eventQueue) = 1
    /\ eventQueue[1].id = EventIds[2]
    /\ emitted[EventIds[2]].audience # {}

\* the queued events that have left the queue without being handed to
\* _processEvent: those _queueEvent shifted out
Discarded ==
    LET waiting == {eventQueue[i].id : i \in 1..Len(eventQueue)}
        running == {task.event.id : task \in tasks}
    IN  {id \in DOMAIN emitted : emitted[id].queued}
            \ (waiting \cup running \cup DOMAIN completed)

\* C35: after every call the queue holds at most maxQueueSize events; an
\* emit that finds the queue full appends its event and drops the oldest of
\* the queue, and no handler is ever called for a dropped event.
C35_QueueBounded ==
    /\ [](Len(eventQueue) <= maxQueueSize)
    /\ [](Discarded \cap {call.event : call \in invoked} = {})
    /\ [][ /\ Discarded \subseteq Discarded'
           /\ (Len(eventQueue) = maxQueueSize /\ emitted' # emitted)
                => /\ Len(eventQueue') = maxQueueSize
                   /\ SubSeq(eventQueue', 1, maxQueueSize - 1) = Tail(eventQueue)
                   /\ eventQueue'[maxQueueSize].id \in DOMAIN emitted' \ DOMAIN emitted
                   /\ Discarded' = Discarded \cup {Head(eventQueue).id} ]_vars

\* C35 witness: an event was dropped from the full queue, and the listener
\* has since been called for the event that was queued after it
C35_Witness ==
    /\ Discarded = {2}
    /\ Len(eventQueue) = maxQueueSize - 1
    /\ \E call \in invoked : call.event = 3
    /\ 3 \in DOMAIN completed

\* C37: from the return of show() until close() is next called, the modal
\* show() created is open: isOpen is set and the overlay and the modal
\* element of the object are the ones that show() created.
C37_ModalStaysOpen ==
    (modalCreated > 0 /\ ~modalClosed)
    => /\ uiModal.isOpen
       /\ uiModal.overlay = Element(modalCreated)
       /\ uiModal.modal = Element(modalCreated)

====
